---- MODULE Spec2Model ----
(***************************************************************************)
(* Model of the Kelox marketplace front end: the session context           *)
(* (contexts/UserContext.tsx), the pages that drive it (app/page.tsx,      *)
(* app/marketplace/page.tsx, app/hospital/[name]/page.tsx, NavBar.tsx)     *)
(* and the offer pages (app/my-offers/page.tsx, components/OfferModal.tsx).*)
(*                                                                         *)
(* A React commit is modelled in two steps: an event handler (or the       *)
(* continuation of an async function after an await) changes the state,    *)
(* and the step Render then runs the effects whose dependencies differ     *)
(* from the values of the previous commit.  No handler runs while a        *)
(* commit is pending (Quiescent), as React flushes the effects of a commit *)
(* before it handles the next update.                                      *)
(***************************************************************************)
EXTENDS Integers, Sequences, FiniteSets, TLC

VARIABLES
    \* ---- browser and backend
    localStorage,       \* value under the key kelox_jwt_token, or Null
    owned,              \* backend: the hospital the user owns, or Null
    inflight,           \* requests awaiting a response, in order of issue
    \* ---- UserProvider state (contexts/UserContext.tsx)
    jwtToken, hospitalProfile, shoppingCart, isLoadingProfile, isLoadingCart,
    storedToken,        \* the mount effect's local storedToken
    \* ---- Privy (usePrivy / useWallets)
    privy,              \* "notReady", "in" (authenticated, user, wallet), "out"
    loggingOut,         \* logout() called and not yet completed
    privySession,       \* Privy holds a session for this browser
    \* ---- the page and the router
    phase,              \* "loading" (document loading), "ready" (app mounted)
    page,               \* the mounted page component
    nav,                \* target of a pending router.push, or Null
    pageFresh,          \* the page component mounted and its effects not yet run
    prev,               \* dependency values of the previous commit
    \* ---- Home (app/page.tsx)
    isAuthenticating, authError,
    \* ---- HospitalProfilePage (app/hospital/[name]/page.tsx)
    viewName,           \* params.name: the hospital the URL names
    hospital, hpError, isLoading, products, orders, salesHistory, isInitializing,
    \* ---- backend: the offers of the user's hospital
    backendOffers,
    \* ---- MyOffersPage (app/my-offers/page.tsx)
    offers, offersLoading, activeTab, selectedOffer, showChatModal, showEditOfferModal,
    isReopeningOffer,
    offerReqs,          \* requests of the offers page awaiting a response
    \* ---- OfferModal (app/components/OfferModal.tsx)
    offerProducts, isEditMode, editableProducts, showRejectModal, isRejecting,
    formOpen,           \* isOpen of a modal in its regular mode (the offer form)
    initialProduct,     \* the product the form was opened on, or null
    availableProducts,  \* the seller's products the modal has fetched
    isSubmittingOffer, isUpdatingOffer,
    \* ---- CsvImportModal (app/hospital/[name]/page.tsx)
    csvFile,            \* the file the user picks
    lenientDate,        \* the browser's Date accepts a day its month does not have
    step, csvData, validationErrors,
    csvAlert,           \* the last alert() of parseCsvData
    \* ---- CartPage (the cart page)
    cartBody,           \* the cart object the context holds, with its items
    cartView,           \* what the page renders of it
    backendCart,        \* the items of the hospital's cart at the backend
    cartReqs,           \* requests of the cart page awaiting a response
    cartLog,            \* per cart GET, in the order of issue: what its response set
    isLoadingOrders,
    \* ---- the offer chat (OfferModal.tsx 160-198, 295-341)
    chatPosted,         \* backend: per offer, the REJECTED messages stored in its chat
    chatInterval,       \* the offer whose chat the live setInterval polls, or Null
    chatReqs,           \* the chat GETs of the mounted modal that await a response;
                        \* GETs alike in offer and isInitialLoad are one element
    isLoadingMessages,
    \* ---- observation
    lastEvent           \* the last handler that ran, and the response it handled

sessionVars == <<localStorage, owned, inflight, jwtToken, hospitalProfile, shoppingCart,
                 isLoadingProfile, isLoadingCart, storedToken, privy, loggingOut,
                 privySession, phase, page, nav, pageFresh, prev, isAuthenticating, authError,
                 lastEvent>>

hospitalVars == <<viewName, hospital, hpError, isLoading, products, orders, salesHistory,
                  isInitializing>>

formVars == <<formOpen, initialProduct, availableProducts, isSubmittingOffer, isUpdatingOffer>>

chatVars == <<chatPosted, chatInterval, chatReqs, isLoadingMessages>>

offersVars == <<backendOffers, offers, offersLoading, activeTab, selectedOffer, showChatModal,
                showEditOfferModal, isReopeningOffer, offerReqs, offerProducts, isEditMode,
                editableProducts, showRejectModal, isRejecting, formVars, chatVars>>

csvVars == <<csvFile, lenientDate, step, csvData, validationErrors, csvAlert>>

cartFetchVars == <<backendCart, cartReqs, cartLog, isLoadingOrders>>

cartVars == <<cartBody, cartView, cartFetchVars>>

\* The state of the pages the session's own steps leave alone.
pagesVars == <<offersVars, csvVars, cartVars>>

vars == <<sessionVars, hospitalVars, offersVars, csvVars, cartVars>>

Null == "null"

\* ---- bounds
MaxInflight == 3

Tokens == {"t1", "t2"}
Hospitals == {"h1", "h2"}
OwnHospital == "h1"
Carts == {"c1"}
SessionPages == {"home", "marketplace"}

\* HTTP outcomes of a request: a status, or 0 when fetch itself rejects.
NetErr == 0
Statuses == {200, 404, 401, 500, NetErr}

Req(kind, token, inner) == [kind |-> kind, token |-> token, inner |-> inner]

\* The values the effects' dependency arrays compare.
Deps == [jwtToken |-> jwtToken, hospitalProfile |-> hospitalProfile,
         shoppingCart |-> shoppingCart,
         isLoadingProfile |-> isLoadingProfile, isLoadingCart |-> isLoadingCart,
         privy |-> privy, isAuthenticating |-> isAuthenticating,
         authError |-> authError, hospital |-> hospital,
         isInitializing |-> isInitializing, isOwner |-> (hospitalProfile = hospital)]

InitialDeps == [jwtToken |-> Null, hospitalProfile |-> Null, shoppingCart |-> Null,
                isLoadingProfile |-> FALSE, isLoadingCart |-> FALSE,
                privy |-> "notReady", isAuthenticating |-> FALSE,
                authError |-> FALSE, hospital |-> Null, isInitializing |-> TRUE,
                isOwner |-> TRUE]

Quiescent == phase = "ready" /\ ~pageFresh /\ prev = Deps

\* The model follows a user who starts nothing new while MaxInflight requests
\* await their responses.
CanIssue == Len(inflight) < MaxInflight

Event(op, cause) == [op |-> op, cause |-> cause, kind |-> Null, status |-> 0,
                     token |-> Null, level |-> "log"]

Response(r, status, level) ==
    [op |-> "response", cause |-> "network", kind |-> r.kind, status |-> status,
     token |-> r.token, level |-> level]

\* ---- offers
OfferStatuses == {"PENDING", "ACCEPTED", "REJECTED"}

\* The offers the user's hospital created and the ones it received.
Created == {"o1"}
Received == {"o2"}
OfferIds == Created \cup Received

\* A line item of an offer; prices are in cents.
Line(price, quantity) == [price |-> price, quantity |-> quantity]

\* The line items of each offer.
OfferLines == [id \in OfferIds |->
                 IF id \in Created THEN <<Line(5, 2)>> ELSE <<Line(3, 1), Line(2, 2)>>]

\* The backend before anyone has decided an offer.
InitialOffers == [id \in OfferIds |-> [status |-> "PENDING", products |-> OfferLines[id]]]

\* selectedOffer === null, offers === null
NoOffer == [id |-> Null, status |-> Null, products |-> <<>>]
NoOffers == [id \in OfferIds |-> NoOffer]

\* useState initial values of MyOffersPage and of an OfferModal.
OfferModalInit ==
    /\ offerProducts = <<>> /\ isEditMode = FALSE /\ editableProducts = <<>>
    /\ showRejectModal = FALSE /\ isRejecting = FALSE
    /\ formOpen = FALSE /\ initialProduct = Null /\ availableProducts = {}
    /\ isSubmittingOffer = FALSE /\ isUpdatingOffer = FALSE

\* No rejection posted yet, no chat fetched, and the modal's useState initial
\* value isLoadingMessages = false.  What the chat holds besides, and with it
\* the modal's messages state, is left out.
ChatIdle ==
    /\ chatPosted = [id \in OfferIds |-> 0]
    /\ chatReqs = {} /\ isLoadingMessages = FALSE

OffersPageInit ==
    /\ offers = NoOffers /\ offersLoading = TRUE /\ activeTab = "outgoing"
    /\ selectedOffer = NoOffer /\ showChatModal = FALSE /\ showEditOfferModal = FALSE
    /\ isReopeningOffer = FALSE
    /\ OfferModalInit
    /\ ChatIdle /\ chatInterval = Null

\* No alert() raised.
NoAlert == [message |-> "none", list |-> <<>>]

\* useState initial values of CsvImportModal.
CsvModalInit ==
    /\ step = "instructions" /\ csvData = <<>> /\ validationErrors = <<>>
    /\ csvAlert = NoAlert

\* No file picked: the modal is never opened.
NoFile == [columns |-> <<>>, style |-> "plain", rows |-> <<>>]
CsvModalClosed == csvFile = NoFile /\ lenientDate = FALSE /\ CsvModalInit

\* shoppingCart === null, and a page that has rendered nothing.
NoCartBody == [present |-> FALSE, items |-> <<>>, totalAmount |-> 0]
NoCartView == [rendered |-> FALSE, offerGroups |-> <<>>, individualItems |-> <<>>,
               summary |-> FALSE, productsCost |-> 0, platformFee |-> 0, total |-> 0]
NoCartFetches ==
    /\ backendCart = <<>> /\ cartReqs = <<>> /\ cartLog = <<>> /\ isLoadingOrders = FALSE
CartPageClosed == cartBody = NoCartBody /\ cartView = NoCartView /\ NoCartFetches

\* useState initial values of HospitalProfilePage.
HospitalPageInit ==
    /\ hospital = Null /\ hpError = FALSE /\ isLoading = TRUE
    /\ products = Null /\ orders = Null /\ salesHistory = Null
    /\ isInitializing = TRUE

\* The page component mounts: its state is the initial one again.
HospitalPageMount ==
    /\ hospital' = Null /\ hpError' = FALSE /\ isLoading' = TRUE
    /\ products' = Null /\ orders' = Null /\ salesHistory' = Null
    /\ isInitializing' = TRUE

Init ==
    /\ localStorage \in Tokens \cup {Null}
    /\ owned \in {OwnHospital, Null}
    /\ inflight = <<>>
    /\ jwtToken = Null /\ hospitalProfile = Null /\ shoppingCart = Null
    /\ isLoadingProfile = FALSE /\ isLoadingCart = FALSE
    /\ storedToken = Null
    /\ privy = "notReady" /\ loggingOut = FALSE /\ privySession \in BOOLEAN
    /\ phase = "loading" /\ page \in SessionPages /\ nav = Null /\ pageFresh = TRUE
    /\ prev = InitialDeps
    /\ isAuthenticating = FALSE /\ authError = FALSE
    /\ lastEvent = Event("load", "load")
    /\ viewName = OwnHospital /\ HospitalPageInit
    /\ backendOffers = InitialOffers
    /\ offerReqs = <<>> /\ OffersPageInit
    /\ CsvModalClosed
    /\ CartPageClosed

\* ------------------------------------------------------------------------
\* UserProvider (contexts/UserContext.tsx)

Remove(seq, i) == SubSeq(seq, 1, i - 1) \o SubSeq(seq, i + 1, Len(seq))

\* fetchHospitalProfile(token?): the requests it issues. authToken is the
\* argument or else the jwtToken of the calling render; without one it returns
\* before any request.
fetchHospitalProfile(token, rendered) ==
    LET authToken == IF token # Null THEN token ELSE rendered
    IN  IF authToken = Null THEN <<>> ELSE <<Req("profile", authToken, FALSE)>>

\* A mount effect that calls fetchHospitalProfile() without the token it read.
mountFetchNoArg(stored) == fetchHospitalProfile(Null, jwtToken)

\* The call of the mount effect: fetchHospitalProfile(storedToken).
mountFetch(stored) == fetchHospitalProfile(stored, jwtToken)

\* fetchShoppingCartInternal(hospitalId, authToken) as awaited by
\* fetchHospitalProfile.
fetchShoppingCartInternal(authToken, inner) == <<Req("cart", authToken, inner)>>

\* First commit of a page load: the page's effects run on the initial state,
\* then the provider's mount effect and its token-sync effect.  The sync
\* effect sees the jwtToken of this render (null) and removes the key; the
\* token set by the mount effect is rendered by the next commit.
AppMount ==
    /\ UNCHANGED pagesVars
    /\ phase = "loading"
    /\ LET reqs == IF localStorage # Null THEN mountFetch(localStorage) ELSE <<>>
       IN  /\ storedToken' = localStorage
           /\ jwtToken' = IF localStorage # Null THEN localStorage ELSE jwtToken
           /\ inflight' = inflight \o reqs
           /\ isLoadingProfile' = (Len(reqs) > 0)
    /\ localStorage' = Null
    /\ nav' = IF page = "marketplace" THEN "home" ELSE Null
    /\ phase' = "ready" /\ pageFresh' = FALSE /\ prev' = InitialDeps
    /\ lastEvent' = Event("mount", "load")
    /\ UNCHANGED hospitalVars
    /\ UNCHANGED <<owned, hospitalProfile, shoppingCart, isLoadingCart, privy, loggingOut,
                   privySession, page, isAuthenticating, authError>>

\* A sync effect that only ever removes the key.
syncStorageRemoves(token) == Null

\* Token-sync effect, deps [jwtToken]: the value of the key after it ran
\* (setItem for a token, removeItem for null).
syncStorage(token) == token

\* The clearUserData of the file's earlier version (lines 79-83), which
\* leaves the cart.
clearUserDataKeepsCart ==
    /\ jwtToken' = Null
    /\ hospitalProfile' = Null
    /\ shoppingCart' = shoppingCart
    /\ localStorage' = Null

\* clearUserData()
clearUserData ==
    /\ jwtToken' = Null
    /\ hospitalProfile' = Null
    /\ shoppingCart' = Null
    /\ localStorage' = Null

\* ------------------------------------------------------------------------
\* Home (app/page.tsx)

\* authenticateWithBackend() up to its first await (signMessage).
authenticateWithBackend == IF privy = "in" THEN <<Req("sign", Null, FALSE)>> ELSE <<>>

\* An auth effect without the test of jwtToken.
authEffectAlways == privy = "in"

\* The auth effect's guard: authenticated && user && wallets, and no token yet.
authEffectStarts == privy = "in" /\ jwtToken = Null

\* A redirect effect that never fires.
redirectEffectOff == FALSE

\* The redirect effect's condition: hospitalProfile && !isLoadingProfile.
redirectEffect == hospitalProfile # Null /\ ~isLoadingProfile

\* The account-setup card of Home is rendered.
showsAccountSetup ==
    /\ page = "home" /\ phase = "ready" /\ privy = "in"
    /\ jwtToken # Null /\ hospitalProfile = Null
    /\ ~isAuthenticating /\ ~isLoadingProfile

\* ------------------------------------------------------------------------
\* A commit: the effects whose dependencies changed since the previous one.

Changed(f) == pageFresh \/ prev[f] # Deps[f]

\* Marketplace guard effect: it lists fetchHospitalProfile among its deps, a
\* function the provider creates anew on each render, so it runs on each commit.
marketplaceFetch ==
    IF jwtToken # Null /\ hospitalProfile = Null /\ ~isLoadingProfile
    THEN fetchHospitalProfile(Null, jwtToken) ELSE <<>>

\* ------------------------------------------------------------------------
\* HospitalProfilePage (app/hospital/[name]/page.tsx)

\* authenticatedFetch sends the token it reads from localStorage at the call.
authenticatedFetch(kind) == <<Req(kind, localStorage, FALSE)>>

isOwner == hospitalProfile = hospital

\* The effects' fetchers, past their early returns on isInitializing.
fetchHospital == authenticatedFetch("hospital")

fetchProducts == IF hospital = Null THEN <<>> ELSE <<Req("products", Null, FALSE)>>

fetchOrders ==
    IF isInitializing \/ ~isOwner \/ jwtToken = Null THEN <<>> ELSE authenticatedFetch("orders")

fetchSalesHistory ==
    IF isInitializing \/ ~isOwner \/ jwtToken = Null THEN <<>> ELSE authenticatedFetch("sales")

Render ==
    /\ UNCHANGED pagesVars
    /\ phase = "ready"
    /\ pageFresh \/ prev # Deps
    /\ LET authReqs == IF page = "home" /\ (Changed("privy") \/ Changed("jwtToken"))
                          /\ authEffectStarts
                       THEN authenticateWithBackend ELSE <<>>
           profReqs == IF page = "marketplace" THEN marketplaceFetch ELSE <<>>
           redirect == page = "home"
                       /\ (Changed("hospitalProfile") \/ Changed("isLoadingProfile"))
                       /\ redirectEffect
           fetchHosp == page = "hospital"
                        /\ (Changed("jwtToken") \/ Changed("isInitializing"))
                        /\ ~isInitializing
           hospReqs == IF fetchHosp /\ jwtToken # Null THEN fetchHospital ELSE <<>>
           prodReqs == IF page = "hospital" /\ Changed("hospital") THEN fetchProducts ELSE <<>>
           ownReqs  == IF page = "hospital"
                          /\ (Changed("isOwner") \/ Changed("jwtToken")
                              \/ Changed("isInitializing"))
                       THEN fetchOrders \o fetchSalesHistory ELSE <<>>
           toHome   == page = "marketplace"
                       /\ \/ jwtToken = Null
                          \/ /\ Changed("isLoadingProfile") \/ Changed("jwtToken")
                                \/ Changed("hospitalProfile")
                             /\ ~isLoadingProfile /\ jwtToken # Null /\ hospitalProfile = Null
       IN  /\ inflight' = inflight \o authReqs \o profReqs \o hospReqs \o prodReqs \o ownReqs
           /\ isLoading' = IF fetchHosp THEN jwtToken # Null ELSE isLoading
           /\ hpError' = IF fetchHosp THEN jwtToken = Null ELSE hpError
           /\ isAuthenticating' = (isAuthenticating \/ Len(authReqs) > 0)
           /\ authError' = (authError /\ Len(authReqs) = 0)
           /\ isLoadingProfile' = (isLoadingProfile \/ Len(profReqs) > 0)
           /\ nav' = IF redirect THEN "marketplace" ELSE IF toHome THEN "home" ELSE nav
    /\ localStorage' = IF prev.jwtToken # jwtToken THEN syncStorage(jwtToken) ELSE localStorage
    /\ prev' = Deps
    /\ pageFresh' = FALSE
    /\ UNCHANGED <<viewName, hospital, products, orders, salesHistory, isInitializing>>
    /\ UNCHANGED <<owned, jwtToken, hospitalProfile, shoppingCart, isLoadingCart, storedToken,
                   privy, loggingOut, privySession, phase, page, lastEvent>>

\* ------------------------------------------------------------------------
\* Responses

\* A handler that takes every status but 200 to its error path.
FailureNot200(status) == status # 200

\* The statuses the context's fetchers take to their catch block; a 404 is
\* logged and handled as "none".
Failure(status) == status \notin {200, 404}

\* What the backend can answer to GET /api/hospitals/my-profile.
ProfileStatuses == (IF owned # Null THEN {200} ELSE {404}) \cup {401, 500, NetErr}

\* fetchHospitalProfile after `await fetch`: the 404 branch, the success path up
\* to `await fetchShoppingCartInternal`, or the catch block.
ProfileResponse(i, status) ==
    /\ UNCHANGED pagesVars
    /\ Quiescent
    /\ inflight[i].kind = "profile"
    /\ status \in ProfileStatuses
    /\ LET r == inflight[i]
       IN  /\ hospitalProfile' = IF status = 200 THEN owned ELSE Null
           /\ inflight' = IF status = 200
                          THEN Remove(inflight, i) \o fetchShoppingCartInternal(r.token, TRUE)
                          ELSE Remove(inflight, i)
           /\ isLoadingCart' = IF status = 200 THEN TRUE ELSE isLoadingCart
           /\ isLoadingProfile' = IF status = 200 THEN isLoadingProfile ELSE FALSE
           /\ lastEvent' = Response(r, status, IF Failure(status) THEN "error" ELSE "log")
    /\ UNCHANGED hospitalVars
    /\ UNCHANGED <<localStorage, owned, jwtToken, shoppingCart, storedToken, privy,
                   loggingOut, privySession, phase, page, nav, pageFresh, prev,
                   isAuthenticating, authError>>

\* fetchShoppingCartInternal after `await fetch`; when fetchHospitalProfile
\* awaited it (inner), that function then returns through its finally block.
CartResponse(i, status, cart) ==
    /\ UNCHANGED pagesVars
    /\ Quiescent
    /\ inflight[i].kind = "cart"
    /\ status \in {200, 404, 401, 500, NetErr}
    /\ LET r == inflight[i]
       IN  /\ shoppingCart' = IF status = 200 THEN cart ELSE Null
           /\ isLoadingCart' = FALSE
           /\ isLoadingProfile' = IF r.inner THEN FALSE ELSE isLoadingProfile
           /\ inflight' = Remove(inflight, i)
           /\ lastEvent' = Response(r, status, IF Failure(status) THEN "error" ELSE "log")
    /\ UNCHANGED hospitalVars
    /\ UNCHANGED <<localStorage, owned, jwtToken, hospitalProfile, storedToken, privy,
                   loggingOut, privySession, phase, page, nav, pageFresh, prev,
                   isAuthenticating, authError>>

\* authenticateWithBackend after `await signMessage`: the POST to
\* /api/auth/login, or the catch block.  A request of a Home that has
\* unmounted since (inner) no longer sets that component's state.
SignResponse(i, ok) ==
    /\ UNCHANGED pagesVars
    /\ Quiescent
    /\ inflight[i].kind = "sign"
    /\ LET r == inflight[i]
       IN  /\ inflight' = IF ok THEN Remove(inflight, i) \o <<Req("login", Null, r.inner)>>
                          ELSE Remove(inflight, i)
           /\ authError' = IF ~ok /\ ~r.inner THEN TRUE ELSE authError
           /\ isAuthenticating' = IF ~ok /\ ~r.inner THEN FALSE ELSE isAuthenticating
           /\ lastEvent' = Response(r, IF ok THEN 200 ELSE NetErr, IF ok THEN "log" ELSE "error")
    /\ UNCHANGED hospitalVars
    /\ UNCHANGED <<localStorage, owned, jwtToken, hospitalProfile, shoppingCart,
                   isLoadingProfile, isLoadingCart, storedToken, privy, loggingOut,
                   privySession, phase, page, nav, pageFresh, prev>>

\* authenticateWithBackend after `await fetch(.../api/auth/login)`.
LoginResponse(i, status, token) ==
    /\ UNCHANGED pagesVars
    /\ Quiescent
    /\ inflight[i].kind = "login"
    /\ status \in {200, 401, 500, NetErr}
    /\ LET r == inflight[i]
       IN  /\ jwtToken' = IF status = 200 THEN token ELSE jwtToken
           /\ hospitalProfile' = IF status = 200 THEN owned ELSE hospitalProfile
           /\ authError' = IF status # 200 /\ ~r.inner THEN TRUE ELSE authError
           /\ isAuthenticating' = IF r.inner THEN isAuthenticating ELSE FALSE
           /\ inflight' = Remove(inflight, i)
           /\ lastEvent' = Response(r, status, IF Failure(status) THEN "error" ELSE "log")
    /\ UNCHANGED hospitalVars
    /\ UNCHANGED <<localStorage, owned, shoppingCart, isLoadingProfile, isLoadingCart,
                   storedToken, privy, loggingOut, privySession, phase, page, nav,
                   pageFresh, prev>>

\* fetchHospital after `await authenticatedFetch`.  A response to a page that
\* has unmounted since (inner) sets no state.
HospitalResponse(i, status) ==
    /\ UNCHANGED pagesVars
    /\ Quiescent
    /\ inflight[i].kind = "hospital"
    /\ LET r == inflight[i]
       IN  /\ hospital' = IF status = 200 /\ ~r.inner THEN viewName ELSE hospital
           /\ hpError' = IF status # 200 /\ ~r.inner THEN TRUE ELSE hpError
           /\ isLoading' = IF r.inner THEN isLoading ELSE FALSE
           /\ inflight' = Remove(inflight, i)
           /\ lastEvent' = Response(r, status, IF status = 200 THEN "log" ELSE "error")
    /\ UNCHANGED <<viewName, products, orders, salesHistory, isInitializing>>
    /\ UNCHANGED <<localStorage, owned, jwtToken, hospitalProfile, shoppingCart,
                   isLoadingProfile, isLoadingCart, storedToken, privy, loggingOut,
                   privySession, phase, page, nav, pageFresh, prev, isAuthenticating,
                   authError>>

\* A list state that any response but its own success resets.
listAfterResets(kind, own, ok, current) == IF ok /\ kind = own THEN "loaded" ELSE Null

\* The list state `own` after the response to a fetch of `kind`.
listAfter(kind, own, ok, current) == IF ok /\ kind = own THEN "loaded" ELSE current

\* fetchProducts, fetchOrders and fetchSalesHistory after their await: the
\* list is set when response.ok and left alone otherwise.
ListResponse(i, status) ==
    /\ UNCHANGED pagesVars
    /\ Quiescent
    /\ inflight[i].kind \in {"products", "orders", "sales"}
    /\ LET r == inflight[i]
           ok == status = 200 /\ ~r.inner
       IN  /\ products' = listAfter(r.kind, "products", ok, products)
           /\ orders' = listAfter(r.kind, "orders", ok, orders)
           /\ salesHistory' = listAfter(r.kind, "sales", ok, salesHistory)
           /\ inflight' = Remove(inflight, i)
           /\ lastEvent' = Response(r, status, IF status = 200 THEN "log" ELSE "error")
    /\ UNCHANGED <<viewName, hospital, hpError, isLoading, isInitializing>>
    /\ UNCHANGED <<localStorage, owned, jwtToken, hospitalProfile, shoppingCart,
                   isLoadingProfile, isLoadingCart, storedToken, privy, loggingOut,
                   privySession, phase, page, nav, pageFresh, prev, isAuthenticating,
                   authError>>

\* The 100 ms timer of the page's first effect fires.
InitTimer ==
    /\ UNCHANGED pagesVars
    /\ Quiescent /\ page = "hospital" /\ isInitializing
    /\ CanIssue
    /\ isInitializing' = FALSE
    /\ lastEvent' = Event("timer", "timer")
    /\ UNCHANGED <<viewName, hospital, hpError, isLoading, products, orders, salesHistory>>
    /\ UNCHANGED <<localStorage, owned, inflight, jwtToken, hospitalProfile, shoppingCart,
                   isLoadingProfile, isLoadingCart, storedToken, privy, loggingOut,
                   privySession, phase, page, nav, pageFresh, prev, isAuthenticating,
                   authError>>

\* ------------------------------------------------------------------------
\* The user and the browser

\* Home's Retry button, rendered with the error card.
Retry ==
    /\ UNCHANGED pagesVars
    /\ Quiescent /\ page = "home" /\ privy = "in" /\ authError
    /\ CanIssue
    /\ inflight' = inflight \o authenticateWithBackend
    /\ isAuthenticating' = TRUE
    /\ authError' = FALSE
    /\ lastEvent' = Event("retry", "user")
    /\ UNCHANGED hospitalVars
    /\ UNCHANGED <<localStorage, owned, jwtToken, hospitalProfile, shoppingCart,
                   isLoadingProfile, isLoadingCart, storedToken, privy, loggingOut,
                   privySession, phase, page, nav, pageFresh, prev>>

\* Home's Sign out button: clearUserData(); logout().
HomeSignOut ==
    /\ UNCHANGED pagesVars
    /\ Quiescent /\ page = "home" /\ privy = "in"
    /\ CanIssue
    /\ clearUserData
    /\ loggingOut' = TRUE
    /\ lastEvent' = Event("clearUserData", "user")
    /\ UNCHANGED hospitalVars
    /\ UNCHANGED <<owned, inflight, isLoadingProfile, isLoadingCart, storedToken, privy,
                   privySession, phase, page, nav, pageFresh, prev, isAuthenticating,
                   authError>>

\* The marketplace renders its content, NavBar included.
marketplaceShown ==
    page = "marketplace" /\ privy = "in" /\ ~isLoadingProfile /\ hospitalProfile # Null

\* NavBar handleLogout: clearUserData(); logout(); router.push('/').
navBarShown == marketplaceShown \/ page = "hospital"

\* A click on the NavBar logo, on its hospital entry or on a product card's
\* seller: router.push of the marketplace or of a hospital page.
UserNavigate(target) ==
    /\ UNCHANGED pagesVars
    /\ Quiescent /\ navBarShown
    /\ \/ target = "marketplace" /\ page # "marketplace"
       \/ target \in Hospitals /\ (page = "hospital" => target # viewName)
          /\ (page = "hospital" => target = hospitalProfile)
    /\ nav' = target
    /\ lastEvent' = Event("click", "user")
    /\ UNCHANGED hospitalVars
    /\ UNCHANGED <<localStorage, owned, inflight, jwtToken, hospitalProfile, shoppingCart,
                   isLoadingProfile, isLoadingCart, storedToken, privy, loggingOut,
                   privySession, phase, page, pageFresh, prev, isAuthenticating, authError>>

handleLogout ==
    /\ UNCHANGED pagesVars
    /\ Quiescent /\ navBarShown
    /\ CanIssue
    /\ clearUserData
    /\ loggingOut' = TRUE
    /\ nav' = "home"
    /\ lastEvent' = Event("clearUserData", "user")
    /\ UNCHANGED hospitalVars
    /\ UNCHANGED <<owned, inflight, isLoadingProfile, isLoadingCart, storedToken, privy,
                   privySession, phase, page, pageFresh, prev, isAuthenticating,
                   authError>>

\* Privy finishes initialising: authenticated exactly when it holds a session.
PrivyReady ==
    /\ UNCHANGED pagesVars
    /\ Quiescent /\ privy = "notReady"
    /\ CanIssue
    /\ privy' = IF privySession /\ ~loggingOut THEN "in" ELSE "out"
    /\ lastEvent' = Event("privyReady", "privy")
    /\ UNCHANGED hospitalVars
    /\ UNCHANGED <<localStorage, owned, inflight, jwtToken, hospitalProfile, shoppingCart,
                   isLoadingProfile, isLoadingCart, storedToken, loggingOut, privySession,
                   phase, page, nav, pageFresh, prev, isAuthenticating, authError>>

\* Privy's logout() completes.
PrivyLogoutDone ==
    /\ UNCHANGED pagesVars
    /\ Quiescent /\ loggingOut
    /\ loggingOut' = FALSE /\ privySession' = FALSE /\ privy' = "out"
    /\ lastEvent' = Event("logoutDone", "privy")
    /\ UNCHANGED hospitalVars
    /\ UNCHANGED <<localStorage, owned, inflight, jwtToken, hospitalProfile, shoppingCart,
                   isLoadingProfile, isLoadingCart, storedToken, phase, page, nav,
                   pageFresh, prev, isAuthenticating, authError>>

\* A router.push completes: the target page mounts.  The requests of the
\* unmounted Home stay in flight and no longer set its state.
Orphan(r) == IF r.kind \in {"profile", "cart"} THEN r ELSE [r EXCEPT !.inner = TRUE]

PageOf(target) == IF target \in Hospitals THEN "hospital" ELSE target

NavComplete ==
    /\ UNCHANGED pagesVars
    /\ Quiescent /\ nav # Null
    /\ PageOf(nav) = "hospital" <=> page = "hospital"
    /\ CanIssue
    /\ page' = PageOf(nav) /\ nav' = Null
    /\ pageFresh' = TRUE
    /\ isAuthenticating' = FALSE /\ authError' = FALSE
    /\ viewName' = IF nav \in Hospitals THEN nav ELSE viewName
    /\ HospitalPageMount
    /\ inflight' = [k \in DOMAIN inflight |-> Orphan(inflight[k])]
    /\ lastEvent' = Event("navigate", "router")
    /\ UNCHANGED <<localStorage, owned, jwtToken, hospitalProfile, shoppingCart,
                   isLoadingProfile, isLoadingCart, storedToken, privy, loggingOut,
                   privySession, phase, prev>>

\* The user loads a page of the site anew: all script state is lost, the
\* local storage and the backend keep theirs.
Reload(p, name) ==
    /\ UNCHANGED pagesVars
    /\ viewName' = name /\ HospitalPageMount
    /\ localStorage' = localStorage /\ owned' = owned
    /\ privySession' = (privySession /\ ~loggingOut)
    /\ inflight' = <<>>
    /\ jwtToken' = Null /\ hospitalProfile' = Null /\ shoppingCart' = Null
    /\ isLoadingProfile' = FALSE /\ isLoadingCart' = FALSE
    /\ storedToken' = Null
    /\ privy' = "notReady" /\ loggingOut' = FALSE
    /\ phase' = "loading" /\ page' = p /\ nav' = Null /\ pageFresh' = TRUE
    /\ prev' = InitialDeps
    /\ isAuthenticating' = FALSE /\ authError' = FALSE
    /\ lastEvent' = Event("load", "load")

Next ==
    \/ AppMount
    \/ Render
    \/ \E i \in DOMAIN inflight, st \in Statuses : ProfileResponse(i, st)
    \/ \E i \in DOMAIN inflight, st \in Statuses, c \in Carts : CartResponse(i, st, c)
    \/ \E i \in DOMAIN inflight, ok \in BOOLEAN : SignResponse(i, ok)
    \/ \E i \in DOMAIN inflight, st \in Statuses, t \in Tokens : LoginResponse(i, st, t)
    \/ Retry
    \/ HomeSignOut
    \/ handleLogout
    \/ PrivyReady
    \/ PrivyLogoutDone
    \/ NavComplete
    \/ \E p \in SessionPages : Reload(p, viewName)

Spec == Init /\ [][Next]_vars

\* ------------------------------------------------------------------------
\* The life of a hospital page, from the load of /hospital/[name] until the
\* router leaves it, with the session context under it.

HospitalInit ==
    /\ localStorage \in Tokens \cup {Null}
    /\ owned \in {OwnHospital, Null}
    /\ inflight = <<>>
    /\ jwtToken = Null /\ hospitalProfile = Null /\ shoppingCart = Null
    /\ isLoadingProfile = FALSE /\ isLoadingCart = FALSE
    /\ storedToken = Null
    /\ privy = "notReady" /\ loggingOut = FALSE /\ privySession \in BOOLEAN
    /\ phase = "loading" /\ page = "hospital" /\ nav = Null /\ pageFresh = TRUE
    /\ prev = InitialDeps
    /\ isAuthenticating = FALSE /\ authError = FALSE
    /\ lastEvent = Event("load", "load")
    /\ viewName \in Hospitals /\ HospitalPageInit
    /\ backendOffers = InitialOffers
    /\ offerReqs = <<>> /\ OffersPageInit
    /\ CsvModalClosed
    /\ CartPageClosed

HospitalNext ==
    \/ AppMount
    \/ Render
    \/ \E i \in DOMAIN inflight, st \in Statuses : ProfileResponse(i, st)
    \/ \E i \in DOMAIN inflight, st \in Statuses, c \in Carts : CartResponse(i, st, c)
    \/ \E i \in DOMAIN inflight, st \in Statuses : HospitalResponse(i, st)
    \/ \E i \in DOMAIN inflight, st \in Statuses : ListResponse(i, st)
    \/ InitTimer
    \/ \E t \in Hospitals \cup {"marketplace"} : UserNavigate(t)
    \/ handleLogout
    \/ NavComplete
    \/ \E n \in Hospitals : Reload("hospital", n)

HospitalSpec == HospitalInit /\ [][HospitalNext]_vars

\* ------------------------------------------------------------------------
\* MyOffersPage (app/my-offers/page.tsx) and its OfferModal
\* (app/components/OfferModal.tsx), under a settled session.

MaxOfferReqs == 2

\* The user starts nothing new while MaxOfferReqs requests await a response.
CanIssueOffer == Len(offerReqs) < MaxOfferReqs

\* A request of the page or of the modal: its kind, the offer id its closure
\* holds, the line items its closure holds, and whether the modal instance
\* that issued it has unmounted since.
OReq(kind, id, lines, orphan) ==
    [kind |-> kind, id |-> id, products |-> lines, orphan |-> orphan]

\* An offer as the backend serialises it.
OfferResponse(id) ==
    [id |-> id, status |-> backendOffers[id].status, products |-> backendOffers[id].products]

\* The body of GET /api/offers/my-offers.
UserOffersResponse == [id \in OfferIds |-> OfferResponse(id)]

displayOffers ==
    IF offers = NoOffers THEN {} ELSE IF activeTab = "outgoing" THEN Created ELSE Received

\* `showChatModal && selectedOffer`, `showEditOfferModal && selectedOffer`
chatModalShown == showChatModal /\ selectedOffer # NoOffer
editModalShown == showEditOfferModal /\ selectedOffer # NoOffer
modalShown == chatModalShown \/ editModalShown

RECURSIVE SumLines(_)
SumLines(lines) ==
    IF lines = <<>> THEN 0
    ELSE Head(lines).price * Head(lines).quantity + SumLines(Tail(lines))

\* calculateOfferTotal(offer) of the page: the total on an offer's card.
calculateOfferTotal(offer) == SumLines(offer.products)

\* The mapping of initializeOffer and handleEnterEditMode: an offer's line
\* items as the modal's OfferProduct rows.
mapProducts(lines) ==
    [k \in DOMAIN lines |-> [offerPrice |-> lines[k].price, quantity |-> lines[k].quantity]]

RECURSIVE SumRows(_)
SumRows(rows) ==
    IF rows = <<>> THEN 0
    ELSE Head(rows).offerPrice * Head(rows).quantity + SumRows(Tail(rows))

\* calculateTotal() of the modal: over its offerProducts state.
calculateTotal == SumRows(offerProducts)

\* calculateEditTotal() of the modal: over its editableProducts state.
calculateEditTotal == SumRows(editableProducts)

\* The modal's init effect, deps [isOpen, existingOffer, initialProduct,
\* hospitalId]: initializeOffer() up to `await fetchSellerProducts`.
initializeOffer(offer) == <<OReq("seller", offer.id, offer.products, FALSE)>>

\* The effect runs again when a shown modal gets another existingOffer object.
existingOfferChanged(offer) == IF modalShown THEN initializeOffer(offer) ELSE <<>>

\* refreshOffers() up to its await; its closure holds the selected offer.
refreshOffers(id) == <<OReq("refresh", id, <<>>, FALSE)>>

\* A modal instance unmounts: its pending continuations set no state.
OrphanModal(reqs) ==
    [k \in DOMAIN reqs |->
        IF reqs[k].kind \in {"seller", "editSeller", "rejectMsg"}
        THEN [reqs[k] EXCEPT !.orphan = TRUE] ELSE reqs[k]]

\* A modal instance mounts with its initial state.
OfferModalMount ==
    /\ offerProducts' = <<>> /\ isEditMode' = FALSE /\ editableProducts' = <<>>
    /\ showRejectModal' = FALSE /\ isRejecting' = FALSE

\* ---- what the chat view renders (OfferModal.tsx 571-668, 902-951)
viewMode == chatModalShown /\ ~isEditMode

showsEditCancel ==
    viewMode /\ activeTab = "outgoing" /\ selectedOffer.status = "PENDING"

showsReopen ==
    viewMode /\ activeTab = "outgoing" /\ selectedOffer.status = "REJECTED"

showsAcceptReject ==
    viewMode /\ activeTab # "outgoing" /\ selectedOffer.status = "PENDING"

\* The reject-reason dialog with its Confirm Rejection button.
showsRejectDialog == chatModalShown /\ showRejectModal

\* The edit form with its Save Changes button.
showsSaveChanges == chatModalShown /\ isEditMode

modalVars == <<offerProducts, isEditMode, editableProducts, showRejectModal, isRejecting>>

\* What the offers page leaves alone, and what with it an action leaves alone
\* that does not touch the chat.
pageFrame == <<sessionVars, hospitalVars, csvVars, cartVars, formVars>>

otherVars == <<pageFrame, chatVars>>

\* ---- the chat of the modal (OfferModal.tsx 160-198, 295-341)

\* Rejections a user posts to the chat of one offer.
MaxRejections == 1

\* fetchMessages(isInitialLoad) up to its await, with the offer id the
\* effect's closure holds.
ChatReq(id, isInitialLoad) == [id |-> id, isInitialLoad |-> isInitialLoad]

chatPollingUncleared(shown, offer) ==
    IF shown /\ offer # NoOffer THEN offer.id ELSE chatInterval

\* The chat effect, deps [isOpen, isChatMode, existingOffer?.id]: the offer
\* whose chat the interval polls after a commit.  The effect returns early
\* unless the chat modal is open on an offer, and its cleanup clears the
\* interval of the run before.
chatPolling(shown, offer) ==
    IF shown /\ offer # NoOffer THEN offer.id ELSE Null

\* The chat effect as part of a commit that renders the chat modal `shown` on
\* `offer`; `remount` when the commit unmounts the modal instance or mounts a
\* new one.  A run of the effect fetches at once (isInitialLoad) and sets the
\* interval.  The fetches of an unmounted instance set no state when they are
\* answered: they leave chatReqs with the instance.
ChatCommit(shown, offer, remount) ==
    LET polled == chatPolling(shown, offer)
        starts == polled # Null /\ (remount \/ polled # chatInterval)
    IN  /\ chatInterval' = polled
        /\ chatReqs' = (IF remount THEN {} ELSE chatReqs)
                            \cup (IF starts THEN {ChatReq(polled, TRUE)} ELSE {})
        /\ isLoadingMessages' = IF starts THEN TRUE
                                 ELSE IF remount THEN FALSE ELSE isLoadingMessages
        /\ UNCHANGED chatPosted

\* The interval fires: fetchMessages(false) up to its await.
IntervalTick ==
    /\ chatInterval # Null
    /\ chatReqs' = chatReqs \cup {ChatReq(chatInterval, FALSE)}
    /\ UNCHANGED <<chatPosted, chatInterval, isLoadingMessages>>
    /\ UNCHANGED <<backendOffers, offers, offersLoading, activeTab, selectedOffer,
                   showChatModal, showEditOfferModal, isReopeningOffer, offerReqs>>
    /\ UNCHANGED <<offerProducts, isEditMode, editableProducts, showRejectModal, isRejecting>>
    /\ UNCHANGED pageFrame

\* fetchMessages after its await.
ChatResponse(r, ok) ==
    /\ r \in chatReqs
    /\ isLoadingMessages' = IF r.isInitialLoad THEN FALSE ELSE isLoadingMessages
    /\ chatReqs' = chatReqs \ {r}
    /\ UNCHANGED <<chatPosted, chatInterval>>
    /\ UNCHANGED <<backendOffers, offers, offersLoading, activeTab, selectedOffer,
                   showChatModal, showEditOfferModal, isReopeningOffer, offerReqs>>
    /\ UNCHANGED <<offerProducts, isEditMode, editableProducts, showRejectModal, isRejecting>>
    /\ UNCHANGED pageFrame

rejectRegardless(ok, confirmed) == confirmed

\* handleRejectWithReason throws unless the chat POST answered ok, and
\* handleRejectOffer returns unless the user confirms: whether the reject
\* request is sent.
rejectAfterPost(ok, confirmed) == ok /\ confirmed

\* fetchOffers of the page's effect, after its await.
FetchOffersResponse(i, ok) ==
    /\ offerReqs[i].kind = "list"
    /\ offers' = IF ok THEN UserOffersResponse ELSE offers
    /\ offersLoading' = FALSE
    /\ offerReqs' = Remove(offerReqs, i)
    /\ UNCHANGED <<backendOffers, activeTab, selectedOffer, showChatModal,
                   showEditOfferModal, isReopeningOffer>>
    /\ UNCHANGED modalVars /\ UNCHANGED otherVars

\* A click on the other tab; an open modal covers the tabs.
setActiveTab(tab) ==
    /\ ~modalShown /\ tab # activeTab
    /\ activeTab' = tab
    /\ UNCHANGED <<backendOffers, offers, offersLoading, selectedOffer, showChatModal,
                   showEditOfferModal, isReopeningOffer, offerReqs>>
    /\ UNCHANGED modalVars /\ UNCHANGED otherVars

\* The View button of an offer's card: the chat modal mounts and its init
\* effect runs.
handleJoinConversation(id) ==
    /\ ~modalShown /\ ~offersLoading /\ id \in displayOffers
    /\ CanIssueOffer
    /\ selectedOffer' = offers[id]
    /\ showChatModal' = TRUE
    /\ OfferModalMount
    /\ offerReqs' = offerReqs \o initializeOffer(offers[id])
    /\ UNCHANGED <<backendOffers, offers, offersLoading, activeTab, showEditOfferModal,
                   isReopeningOffer>>
    /\ ChatCommit(TRUE, offers[id], TRUE)
    /\ UNCHANGED pageFrame

\* initializeOffer after `await fetchSellerProducts`, which resolves to [] when
\* the fetch fails: the rows are those of the offer the effect's closure holds.
SellerResponse(i) ==
    /\ offerReqs[i].kind = "seller"
    /\ LET r == offerReqs[i]
       IN  /\ offerProducts' = IF r.orphan THEN offerProducts ELSE mapProducts(r.products)
           /\ offerReqs' = Remove(offerReqs, i)
    /\ UNCHANGED <<backendOffers, offers, offersLoading, activeTab, selectedOffer,
                   showChatModal, showEditOfferModal, isReopeningOffer>>
    /\ UNCHANGED <<isEditMode, editableProducts, showRejectModal, isRejecting>>
    /\ UNCHANGED otherVars

\* The Accept button: onAccept -> handleAcceptOffer, confirmed, up to its await.
handleAcceptOffer ==
    /\ showsAcceptReject /\ ~showRejectModal
    /\ CanIssueOffer
    /\ offerReqs' = offerReqs \o <<OReq("accept", selectedOffer.id, <<>>, FALSE)>>
    /\ UNCHANGED <<backendOffers, offers, offersLoading, activeTab, selectedOffer,
                   showChatModal, showEditOfferModal, isReopeningOffer>>
    /\ UNCHANGED modalVars /\ UNCHANGED otherVars

\* handleAcceptOffer / handleRejectOffer after their await: the backend decides
\* a PENDING offer and answers with it; the handler selects the answer and
\* calls refreshOffers.
Decided(i, ok, status) ==
    LET r == offerReqs[i]
        success == ok /\ backendOffers[r.id].status = "PENDING"
        updatedOffer == [id |-> r.id, status |-> status,
                         products |-> backendOffers[r.id].products]
    IN  /\ backendOffers' = IF success THEN [backendOffers EXCEPT ![r.id].status = status]
                            ELSE backendOffers
        /\ selectedOffer' = IF success THEN updatedOffer ELSE selectedOffer
        /\ offerReqs' = IF success
                        THEN Remove(offerReqs, i) \o refreshOffers(r.id)
                                 \o (IF showChatModal \/ showEditOfferModal
                                     THEN initializeOffer(updatedOffer) ELSE <<>>)
                        ELSE Remove(offerReqs, i)
        /\ UNCHANGED <<offers, offersLoading, activeTab, showChatModal, showEditOfferModal,
                       isReopeningOffer>>
        /\ ChatCommit(showChatModal, IF success THEN updatedOffer ELSE selectedOffer, FALSE)
        /\ UNCHANGED modalVars /\ UNCHANGED pageFrame

AcceptResponse(i, ok) ==
    /\ offerReqs[i].kind = "accept"
    /\ Decided(i, ok, "ACCEPTED")

RejectResponse(i, ok) ==
    /\ offerReqs[i].kind = "reject"
    /\ Decided(i, ok, "REJECTED")

\* The Cancel offer button: onCancel calls handleCancelOffer, which asks for
\* confirmation and sends the DELETE, and then closes the chat modal; the
\* selected offer stays selected.
handleCancelOffer(confirmed) ==
    /\ showsEditCancel /\ ~showRejectModal
    /\ CanIssueOffer
    /\ offerReqs' = OrphanModal(offerReqs)
                        \o (IF confirmed THEN <<OReq("cancel", selectedOffer.id, <<>>, FALSE)>>
                            ELSE <<>>)
    /\ showChatModal' = FALSE
    /\ OfferModalMount
    /\ UNCHANGED <<backendOffers, offers, offersLoading, activeTab, selectedOffer,
                   showEditOfferModal, isReopeningOffer>>
    /\ ChatCommit(FALSE, selectedOffer, TRUE)
    /\ UNCHANGED pageFrame

\* handleCancelOffer after its await.  The backend is not part of this
\* repository: the offer it answers with has any status of the declared type.
CancelResponse(i, ok, status) ==
    /\ offerReqs[i].kind = "cancel"
    /\ LET r == offerReqs[i]
           updatedOffer == [id |-> r.id, status |-> status,
                            products |-> backendOffers[r.id].products]
       IN  /\ backendOffers' = IF ok THEN [backendOffers EXCEPT ![r.id].status = status]
                               ELSE backendOffers
           /\ selectedOffer' = IF ok THEN updatedOffer ELSE selectedOffer
           /\ offerReqs' = IF ok
                           THEN Remove(offerReqs, i) \o refreshOffers(r.id)
                                    \o (IF showChatModal \/ showEditOfferModal
                                        THEN initializeOffer(updatedOffer) ELSE <<>>)
                           ELSE Remove(offerReqs, i)
    /\ UNCHANGED <<offers, offersLoading, activeTab, showChatModal, showEditOfferModal,
                   isReopeningOffer>>
    /\ ChatCommit(showChatModal, selectedOffer', FALSE)
    /\ UNCHANGED modalVars /\ UNCHANGED pageFrame

\* refreshOffers after its await: the list is replaced, and the offer its
\* closure held selected is selected again, as the backend now has it.
RefreshResponse(i, ok) ==
    /\ offerReqs[i].kind = "refresh"
    /\ LET r == offerReqs[i]
       IN  /\ offers' = IF ok THEN UserOffersResponse ELSE offers
           /\ selectedOffer' = IF ok THEN OfferResponse(r.id) ELSE selectedOffer
           /\ offerReqs' = IF ok
                           THEN Remove(offerReqs, i)
                                    \o (IF showChatModal \/ showEditOfferModal
                                        THEN initializeOffer(OfferResponse(r.id)) ELSE <<>>)
                           ELSE Remove(offerReqs, i)
    /\ UNCHANGED <<backendOffers, offersLoading, activeTab, showChatModal,
                   showEditOfferModal, isReopeningOffer>>
    /\ ChatCommit(showChatModal, selectedOffer', FALSE)
    /\ UNCHANGED modalVars /\ UNCHANGED pageFrame

\* The Reject button of the view: the reject-reason dialog opens.
openRejectModal ==
    /\ showsAcceptReject /\ ~showRejectModal
    /\ showRejectModal' = TRUE
    /\ UNCHANGED <<backendOffers, offers, offersLoading, activeTab, selectedOffer,
                   showChatModal, showEditOfferModal, isReopeningOffer, offerReqs>>
    /\ UNCHANGED <<offerProducts, isEditMode, editableProducts, isRejecting>>
    /\ UNCHANGED otherVars

\* The dialog's Cancel button.
closeRejectModal ==
    /\ showsRejectDialog /\ ~isRejecting
    /\ showRejectModal' = FALSE
    /\ UNCHANGED <<backendOffers, offers, offersLoading, activeTab, selectedOffer,
                   showChatModal, showEditOfferModal, isReopeningOffer, offerReqs>>
    /\ UNCHANGED <<offerProducts, isEditMode, editableProducts, isRejecting>>
    /\ UNCHANGED otherVars

\* The dialog's Confirm Rejection button: handleRejectWithReason with a
\* reason, up to the await of the chat POST.
handleRejectWithReason ==
    /\ showsRejectDialog /\ ~isRejecting
    /\ CanIssueOffer /\ chatPosted[selectedOffer.id] < MaxRejections
    /\ isRejecting' = TRUE
    /\ offerReqs' = offerReqs \o <<OReq("rejectMsg", selectedOffer.id, <<>>, FALSE)>>
    /\ UNCHANGED <<backendOffers, offers, offersLoading, activeTab, selectedOffer,
                   showChatModal, showEditOfferModal, isReopeningOffer>>
    /\ UNCHANGED <<offerProducts, isEditMode, editableProducts, showRejectModal>>
    /\ UNCHANGED otherVars

\* handleRejectWithReason after the chat POST, which the backend stores when
\* it answers ok: onReject -> handleRejectOffer, which asks for confirmation
\* and sends the reject; then the dialog closes.
RejectMsgResponse(i, ok, confirmed) ==
    /\ offerReqs[i].kind = "rejectMsg"
    /\ LET r == offerReqs[i]
       IN  /\ chatPosted' = IF ok THEN [chatPosted EXCEPT ![r.id] = @ + 1] ELSE chatPosted
           /\ offerReqs' = Remove(offerReqs, i)
                               \o (IF rejectAfterPost(ok, confirmed)
                                   THEN <<OReq("reject", r.id, <<>>, FALSE)>> ELSE <<>>)
           /\ showRejectModal' = IF ok /\ ~r.orphan THEN FALSE ELSE showRejectModal
           /\ isRejecting' = IF r.orphan THEN isRejecting ELSE FALSE
    /\ UNCHANGED <<backendOffers, offers, offersLoading, activeTab, selectedOffer,
                   showChatModal, showEditOfferModal, isReopeningOffer>>
    /\ UNCHANGED <<offerProducts, isEditMode, editableProducts>>
    /\ UNCHANGED <<chatInterval, chatReqs, isLoadingMessages>>
    /\ UNCHANGED pageFrame

\* The Edit Offer button: handleEnterEditMode up to `await fetchSellerProducts`.
handleEnterEditMode ==
    /\ showsEditCancel /\ ~showRejectModal
    /\ CanIssueOffer
    /\ offerReqs' = offerReqs
                        \o <<OReq("editSeller", selectedOffer.id, selectedOffer.products, FALSE)>>
    /\ UNCHANGED <<backendOffers, offers, offersLoading, activeTab, selectedOffer,
                   showChatModal, showEditOfferModal, isReopeningOffer>>
    /\ UNCHANGED modalVars /\ UNCHANGED otherVars

\* handleEnterEditMode after its await: the rows to edit are those of the offer
\* its closure holds, and the edit form replaces the view.
EditSellerResponse(i) ==
    /\ offerReqs[i].kind = "editSeller"
    /\ LET r == offerReqs[i]
       IN  /\ editableProducts' = IF r.orphan THEN editableProducts
                                  ELSE mapProducts(r.products)
           /\ isEditMode' = IF r.orphan THEN isEditMode ELSE TRUE
           /\ offerReqs' = Remove(offerReqs, i)
    /\ UNCHANGED <<backendOffers, offers, offersLoading, activeTab, selectedOffer,
                   showChatModal, showEditOfferModal, isReopeningOffer>>
    /\ UNCHANGED <<offerProducts, showRejectModal, isRejecting>>
    /\ UNCHANGED otherVars

\* The edit form's Cancel button.
handleCancelEdit ==
    /\ showsSaveChanges /\ ~showRejectModal
    /\ isEditMode' = FALSE /\ editableProducts' = <<>>
    /\ UNCHANGED <<backendOffers, offers, offersLoading, activeTab, selectedOffer,
                   showChatModal, showEditOfferModal, isReopeningOffer, offerReqs>>
    /\ UNCHANGED <<offerProducts, showRejectModal, isRejecting>>
    /\ UNCHANGED otherVars

\* The Re-open Offer button: onReopen closes the chat modal and
\* handleReopenOffer(selectedOffer) opens the edit modal, a new instance.
handleReopenOffer ==
    /\ showsReopen /\ ~showRejectModal
    /\ CanIssueOffer
    /\ showChatModal' = FALSE
    /\ isReopeningOffer' = TRUE
    /\ showEditOfferModal' = TRUE
    /\ OfferModalMount
    /\ offerReqs' = OrphanModal(offerReqs) \o initializeOffer(selectedOffer)
    /\ UNCHANGED <<backendOffers, offers, offersLoading, activeTab, selectedOffer>>
    /\ ChatCommit(FALSE, selectedOffer, TRUE)
    /\ UNCHANGED pageFrame

\* The modal's close button: handleClose, then the page's onClose.
handleClose ==
    /\ modalShown /\ ~showRejectModal
    /\ selectedOffer' = NoOffer
    /\ showChatModal' = FALSE /\ showEditOfferModal' = FALSE
    /\ isReopeningOffer' = (showChatModal /\ isReopeningOffer)
    /\ OfferModalMount
    /\ offerReqs' = OrphanModal(offerReqs)
    /\ UNCHANGED <<backendOffers, offers, offersLoading, activeTab>>
    /\ ChatCommit(FALSE, NoOffer, TRUE)
    /\ UNCHANGED pageFrame

\* The other hospital acts on the backend: it decides an offer made to it,
\* or re-opens an offer of its own.
Counterpart(id, status) ==
    /\ \/ /\ id \in Created /\ backendOffers[id].status = "PENDING"
          /\ status \in {"ACCEPTED", "REJECTED"}
       \/ /\ id \in Received /\ backendOffers[id].status = "REJECTED"
          /\ status = "PENDING"
    /\ backendOffers' = [backendOffers EXCEPT ![id].status = status]
    /\ UNCHANGED <<offers, offersLoading, activeTab, selectedOffer, showChatModal,
                   showEditOfferModal, isReopeningOffer, offerReqs>>
    /\ UNCHANGED modalVars /\ UNCHANGED otherVars

\* The first commit of MyOffersPage: fetchOffers up to its await.
fetchOffers == <<OReq("list", Null, <<>>, FALSE)>>

\* The user loads /my-offers anew.
OffersReload ==
    /\ offers' = NoOffers /\ offersLoading' = TRUE /\ activeTab' = "outgoing"
    /\ selectedOffer' = NoOffer /\ showChatModal' = FALSE /\ showEditOfferModal' = FALSE
    /\ isReopeningOffer' = FALSE
    /\ OfferModalMount
    /\ offerReqs' = fetchOffers
    /\ UNCHANGED backendOffers
    /\ chatInterval' = Null /\ chatReqs' = {}
    /\ isLoadingMessages' = FALSE
    /\ UNCHANGED chatPosted
    /\ UNCHANGED pageFrame

\* /my-offers mounted under a session that has settled with a token.
OffersInit ==
    /\ localStorage = "t1" /\ owned = OwnHospital /\ inflight = <<>>
    /\ jwtToken = "t1" /\ hospitalProfile = OwnHospital /\ shoppingCart = Null
    /\ isLoadingProfile = FALSE /\ isLoadingCart = FALSE
    /\ storedToken = "t1"
    /\ privy = "in" /\ loggingOut = FALSE /\ privySession = TRUE
    /\ phase = "ready" /\ page = "offers" /\ nav = Null /\ pageFresh = FALSE
    /\ isAuthenticating = FALSE /\ authError = FALSE
    /\ lastEvent = Event("mount", "load")
    /\ viewName = OwnHospital /\ HospitalPageInit
    /\ backendOffers \in {[id \in OfferIds |-> [status |-> st[id], products |-> OfferLines[id]]] :
                             st \in [OfferIds -> OfferStatuses]}
    /\ offerReqs = fetchOffers /\ OffersPageInit
    /\ CsvModalClosed
    /\ CartPageClosed
    /\ prev = Deps

OffersNext ==
    \/ \E i \in DOMAIN offerReqs, ok \in BOOLEAN : FetchOffersResponse(i, ok)
    \/ \E tab \in {"outgoing", "incoming"} : setActiveTab(tab)
    \/ \E id \in OfferIds : handleJoinConversation(id)
    \/ \E i \in DOMAIN offerReqs : SellerResponse(i)
    \/ handleAcceptOffer
    \/ \E i \in DOMAIN offerReqs, ok \in BOOLEAN : AcceptResponse(i, ok)
    \/ \E i \in DOMAIN offerReqs, ok \in BOOLEAN : RejectResponse(i, ok)
    \/ \E confirmed \in BOOLEAN : handleCancelOffer(confirmed)
    \/ \E i \in DOMAIN offerReqs, ok \in BOOLEAN, st \in OfferStatuses : CancelResponse(i, ok, st)
    \/ \E i \in DOMAIN offerReqs, ok \in BOOLEAN : RefreshResponse(i, ok)
    \/ openRejectModal
    \/ closeRejectModal
    \/ handleRejectWithReason
    \/ \E i \in DOMAIN offerReqs, ok \in BOOLEAN, c \in BOOLEAN : RejectMsgResponse(i, ok, c)
    \/ handleEnterEditMode
    \/ \E i \in DOMAIN offerReqs : EditSellerResponse(i)
    \/ handleCancelEdit
    \/ handleReopenOffer
    \/ handleClose
    \/ IntervalTick
    \/ \E r \in chatReqs, ok \in BOOLEAN : ChatResponse(r, ok)
    \/ \E id \in OfferIds, st \in OfferStatuses : Counterpart(id, st)
    \/ OffersReload

OffersSpec == OffersInit /\ [][OffersNext]_vars

\* ------------------------------------------------------------------------
\* OfferModal's form (app/components/OfferModal.tsx): the rows of an offer
\* the user creates, edits or re-opens, and the request that sends them.
\* Prices are in euro.

ProductIds == {"p1", "p2"}

\* The seller's products at the backend: the price asked and the quantity
\* available.
SellerProducts ==
    [id \in ProductIds |-> IF id = "p1" THEN [price |-> 4, quantity |-> 2]
                                        ELSE [price |-> 3, quantity |-> 1]]

\* The offer the page hands the form as existingOffer.
ExistingOffer(status) ==
    [id |-> "o1", status |-> status,
     products |-> <<[productId |-> "p1", price |-> 3, quantity |-> 2]>>]

\* What a number input hands its onChange: parseInt(e.target.value) || 0,
\* parseFloat(e.target.value) || 0.  The input's min and max do not keep a
\* value from being typed.
Typed == {-1, 0, 1, 3}

\* An OfferProduct row of the form.
Row(productId, maxQuantity, quantity, offerPrice) ==
    [productId |-> productId, maxQuantity |-> maxQuantity, quantity |-> quantity,
     offerPrice |-> offerPrice]

\* The row of a product added to the form: quantity 0, offerPrice 0.
NewRow(id) == Row(id, SellerProducts[id].quantity, 0, 0)

\* The mapping of an existing offer's products to rows; a product not among
\* the seller's products found gets maxQuantity 0.
mapOfferProducts(lines, found) ==
    [k \in DOMAIN lines |->
        Row(lines[k].productId,
            IF lines[k].productId \in found THEN SellerProducts[lines[k].productId].quantity
            ELSE 0,
            lines[k].quantity, lines[k].price)]

\* offerData.products of a request.
offerData(rows) ==
    [k \in DOMAIN rows |-> [productId |-> rows[k].productId, quantity |-> rows[k].quantity,
                            price |-> rows[k].offerPrice]]

\* rows.some(p => p.quantity === 0 || p.offerPrice === 0)
someUnfilled(rows) == \E k \in DOMAIN rows : rows[k].quantity = 0 \/ rows[k].offerPrice = 0

\* updated[index][field] = value, past the test of maxQuantity.
setField(rows, index, field, value) ==
    IF field = "quantity" /\ value > rows[index].maxQuantity THEN rows
    ELSE [rows EXCEPT ![index][field] = value]

RowIds(rows) == {rows[k].productId : k \in DOMAIN rows}

\* The requests that send an offer: POST /api/offers, PUT /api/offers/{id}
\* of the form ("update") and of the chat view's edit form ("save"), and
\* PUT /api/offers/{id}/reopen.
SendKinds == {"create", "update", "reopen", "save"}

\* The model follows a user who leaves the rows alone while a request that
\* sends them awaits its response.
NoSendPending == ~isSubmittingOffer /\ ~isUpdatingOffer

\* The state of the session and of the pages that the form leaves alone.
formFrame ==
    <<localStorage, owned, inflight, jwtToken, hospitalProfile, shoppingCart,
      isLoadingProfile, isLoadingCart, storedToken, privy, loggingOut, privySession,
      phase, page, nav, pageFresh, prev, isAuthenticating, authError,
      hospitalVars, csvVars, cartVars,
      backendOffers, offers, offersLoading, activeTab, showChatModal, showRejectModal,
      isRejecting, chatVars>>

\* handleMakeOffer of the product page, whose button is rendered while the
\* user has no pending offer to the seller: the modal opens and its init
\* effect runs initializeOffer up to `await fetchSellerProducts`.
handleMakeOffer ==
    /\ page = "product" /\ ~formOpen /\ selectedOffer = NoOffer
    /\ CanIssueOffer
    /\ formOpen' = TRUE
    /\ offerReqs' = offerReqs \o <<OReq("formSeller", selectedOffer.id, selectedOffer.products,
                                        FALSE)>>
    /\ lastEvent' = Event("makeOffer", "user")
    /\ UNCHANGED <<selectedOffer, showEditOfferModal, isReopeningOffer, offerProducts,
                   isEditMode, editableProducts, initialProduct, availableProducts,
                   isSubmittingOffer, isUpdatingOffer>>
    /\ UNCHANGED formFrame

\* initializeOffer after `await fetchSellerProducts`, which returns [] when
\* the fetch fails: the rows of the existing offer, or else of initialProduct.
FormSellerResponse(i, ok) ==
    /\ offerReqs[i].kind = "formSeller"
    /\ LET r == offerReqs[i]
           found == IF ok THEN ProductIds ELSE {}
       IN  /\ availableProducts' = IF ok THEN ProductIds ELSE availableProducts
           /\ offerProducts' = IF r.id # Null THEN mapOfferProducts(r.products, found)
                               ELSE IF initialProduct # Null THEN <<NewRow(initialProduct)>>
                               ELSE offerProducts
           /\ offerReqs' = Remove(offerReqs, i)
           /\ lastEvent' = Event("initializeOffer", IF ok THEN "fetched" ELSE "failed")
    /\ UNCHANGED <<selectedOffer, showEditOfferModal, isReopeningOffer, isEditMode,
                   editableProducts, formOpen, initialProduct, isSubmittingOffer,
                   isUpdatingOffer>>
    /\ UNCHANGED formFrame

\* The product selector of the form lists the fetched products that are not
\* yet in the offer.
handleAddProduct(id) ==
    /\ formOpen /\ NoSendPending
    /\ id \in availableProducts \ RowIds(offerProducts)
    /\ offerProducts' = Append(offerProducts, NewRow(id))
    /\ lastEvent' = Event("addProduct", "user")
    /\ UNCHANGED <<selectedOffer, showEditOfferModal, isReopeningOffer, offerReqs, isEditMode,
                   editableProducts, formOpen, initialProduct, availableProducts,
                   isSubmittingOffer, isUpdatingOffer>>
    /\ UNCHANGED formFrame

updateOfferProduct(index, field, value) ==
    /\ formOpen /\ NoSendPending
    /\ index \in DOMAIN offerProducts
    /\ offerProducts' = setField(offerProducts, index, field, value)
    /\ lastEvent' = Event("updateProduct",
                          IF field = "quantity" /\ value > offerProducts[index].maxQuantity
                          THEN "alert" ELSE "set")
    /\ UNCHANGED <<selectedOffer, showEditOfferModal, isReopeningOffer, offerReqs, isEditMode,
                   editableProducts, formOpen, initialProduct, availableProducts,
                   isSubmittingOffer, isUpdatingOffer>>
    /\ UNCHANGED formFrame

\* The remove button of a row, rendered while the form has more than one.
removeOfferProduct(index) ==
    /\ formOpen /\ NoSendPending
    /\ Len(offerProducts) > 1 /\ index \in DOMAIN offerProducts
    /\ offerProducts' = Remove(offerProducts, index)
    /\ lastEvent' = Event("removeProduct", "user")
    /\ UNCHANGED <<selectedOffer, showEditOfferModal, isReopeningOffer, offerReqs, isEditMode,
                   editableProducts, formOpen, initialProduct, availableProducts,
                   isSubmittingOffer, isUpdatingOffer>>
    /\ UNCHANGED formFrame

\* The endpoint handleSubmitOffer chooses.
submitKind ==
    IF isReopeningOffer /\ selectedOffer # NoOffer THEN "reopen"
    ELSE IF selectedOffer # NoOffer THEN "update" ELSE "create"

\* A handleSubmitOffer that sends whatever the rows hold.
submitUnchecked(rows) == TRUE

\* The test handleSubmitOffer and handleSaveOffer make before they send.
submitAllowed(rows) == ~someUnfilled(rows)

\* The Confirm button: handleSubmitOffer up to `await authenticatedFetch`.
handleSubmitOffer ==
    /\ formOpen /\ ~isSubmittingOffer
    /\ CanIssueOffer
    /\ IF submitAllowed(offerProducts)
       THEN /\ isSubmittingOffer' = TRUE
            /\ offerReqs' = offerReqs \o <<OReq(submitKind, selectedOffer.id,
                                                offerData(offerProducts), FALSE)>>
            /\ lastEvent' = Event("submitOffer", "sent")
       ELSE /\ lastEvent' = Event("submitOffer", "alert")
            /\ UNCHANGED <<isSubmittingOffer, offerReqs>>
    /\ UNCHANGED <<selectedOffer, showEditOfferModal, isReopeningOffer, offerProducts,
                   isEditMode, editableProducts, formOpen, initialProduct, availableProducts,
                   isUpdatingOffer>>
    /\ UNCHANGED formFrame

\* handleSubmitOffer after its await: on success onSuccess() and
\* handleClose(), whose onClose closes the form; the finally block.  The
\* onSuccess of /my-offers drops the selected offer, that of the product
\* page fetches the pending offer, which is now the one sent.
SubmitResponse(i, ok) ==
    /\ offerReqs[i].kind \in SendKinds \ {"save"}
    /\ offerReqs' = Remove(offerReqs, i)
    /\ isSubmittingOffer' = FALSE
    /\ offerProducts' = IF ok THEN <<>> ELSE offerProducts
    /\ formOpen' = IF ok THEN FALSE ELSE formOpen
    /\ showEditOfferModal' = IF ok THEN FALSE ELSE showEditOfferModal
    /\ selectedOffer' = IF ok /\ page = "offers" THEN NoOffer
                        ELSE IF ok THEN [id |-> "o1", status |-> "PENDING",
                                         products |-> offerReqs[i].products]
                        ELSE selectedOffer
    /\ isReopeningOffer' = IF ok THEN FALSE ELSE isReopeningOffer
    /\ lastEvent' = Event("submitOffer", IF ok THEN "success" ELSE "failure")
    /\ UNCHANGED <<isEditMode, editableProducts, initialProduct, availableProducts,
                   isUpdatingOffer>>
    /\ UNCHANGED formFrame

\* ---- the edit form of the chat view

handleAddProductToEdit(id) ==
    /\ showsSaveChanges /\ NoSendPending
    /\ id \in availableProducts \ RowIds(editableProducts)
    /\ editableProducts' = Append(editableProducts, NewRow(id))
    /\ lastEvent' = Event("addProductToEdit", "user")
    /\ UNCHANGED <<selectedOffer, showEditOfferModal, isReopeningOffer, offerReqs, isEditMode,
                   offerProducts, formOpen, initialProduct, availableProducts,
                   isSubmittingOffer, isUpdatingOffer>>
    /\ UNCHANGED formFrame

updateEditableProduct(index, field, value) ==
    /\ showsSaveChanges /\ NoSendPending
    /\ index \in DOMAIN editableProducts
    /\ editableProducts' = setField(editableProducts, index, field, value)
    /\ lastEvent' = Event("updateEditable",
                          IF field = "quantity" /\ value > editableProducts[index].maxQuantity
                          THEN "alert" ELSE "set")
    /\ UNCHANGED <<selectedOffer, showEditOfferModal, isReopeningOffer, offerReqs, isEditMode,
                   offerProducts, formOpen, initialProduct, availableProducts,
                   isSubmittingOffer, isUpdatingOffer>>
    /\ UNCHANGED formFrame

removeEditableProduct(index) ==
    /\ showsSaveChanges /\ NoSendPending
    /\ Len(editableProducts) > 1 /\ index \in DOMAIN editableProducts
    /\ editableProducts' = Remove(editableProducts, index)
    /\ lastEvent' = Event("removeEditable", "user")
    /\ UNCHANGED <<selectedOffer, showEditOfferModal, isReopeningOffer, offerReqs, isEditMode,
                   offerProducts, formOpen, initialProduct, availableProducts,
                   isSubmittingOffer, isUpdatingOffer>>
    /\ UNCHANGED formFrame

\* The Save Changes button: handleSaveOffer up to `await authenticatedFetch`.
handleSaveOffer ==
    /\ showsSaveChanges /\ ~isUpdatingOffer
    /\ CanIssueOffer
    /\ IF submitAllowed(editableProducts) /\ selectedOffer # NoOffer
       THEN /\ isUpdatingOffer' = TRUE
            /\ offerReqs' = offerReqs \o <<OReq("save", selectedOffer.id,
                                                offerData(editableProducts), FALSE)>>
            /\ lastEvent' = Event("saveOffer", "sent")
       ELSE /\ lastEvent' = Event("saveOffer", "alert")
            /\ UNCHANGED <<isUpdatingOffer, offerReqs>>
    /\ UNCHANGED <<selectedOffer, showEditOfferModal, isReopeningOffer, offerProducts,
                   isEditMode, editableProducts, formOpen, initialProduct, availableProducts,
                   isSubmittingOffer>>
    /\ UNCHANGED formFrame

\* handleSaveOffer after its await: on success `await onSuccess()`, the
\* page's refreshOffers, which hands the modal the offer as the backend now
\* has it; the finally block.  The edit form stays until SaveTimer.
SaveResponse(i, ok) ==
    /\ offerReqs[i].kind = "save"
    /\ LET r == offerReqs[i]
       IN  /\ offerReqs' = Remove(offerReqs, i)
                              \o (IF ok THEN <<OReq("saveTimer", r.id, <<>>, FALSE)>> ELSE <<>>)
           /\ selectedOffer' = IF ok THEN [selectedOffer EXCEPT !.products = r.products]
                               ELSE selectedOffer
           /\ offerProducts' = IF ok THEN mapOfferProducts(r.products, availableProducts)
                               ELSE offerProducts
    /\ isUpdatingOffer' = FALSE
    /\ lastEvent' = Event("saveOffer", IF ok THEN "success" ELSE "failure")
    /\ UNCHANGED <<showEditOfferModal, isReopeningOffer, isEditMode, editableProducts,
                   formOpen, initialProduct, availableProducts, isSubmittingOffer>>
    /\ UNCHANGED formFrame

\* The setTimeout of handleSaveOffer, 100 ms after the save: the edit form
\* gives way to the view.
SaveTimer(i) ==
    /\ offerReqs[i].kind = "saveTimer"
    /\ offerReqs' = Remove(offerReqs, i)
    /\ isEditMode' = FALSE /\ editableProducts' = <<>>
    /\ lastEvent' = Event("saveOffer", "timer")
    /\ UNCHANGED <<selectedOffer, showEditOfferModal, isReopeningOffer, offerProducts,
                   formOpen, initialProduct, availableProducts, isSubmittingOffer,
                   isUpdatingOffer>>
    /\ UNCHANGED formFrame

\* The pages with a form, under a session that has settled: the product
\* page before Make an offer; /my-offers with the edit modal just opened by
\* handleReopenOffer; /my-offers with the chat view's edit form, as
\* handleEnterEditMode leaves it.
OfferFormInit ==
    /\ localStorage = "t1" /\ owned = OwnHospital /\ inflight = <<>>
    /\ jwtToken = "t1" /\ hospitalProfile = OwnHospital /\ shoppingCart = Null
    /\ isLoadingProfile = FALSE /\ isLoadingCart = FALSE
    /\ storedToken = "t1"
    /\ privy = "in" /\ loggingOut = FALSE /\ privySession = TRUE
    /\ phase = "ready" /\ nav = Null /\ pageFresh = FALSE
    /\ isAuthenticating = FALSE /\ authError = FALSE
    /\ lastEvent = Event("mount", "load")
    /\ viewName = OwnHospital /\ HospitalPageInit
    /\ backendOffers = InitialOffers
    /\ offers = NoOffers /\ offersLoading = FALSE /\ activeTab = "outgoing"
    /\ showRejectModal = FALSE /\ isRejecting = FALSE
    /\ isSubmittingOffer = FALSE /\ isUpdatingOffer = FALSE
    /\ CsvModalClosed
    /\ CartPageClosed
    /\ \/ /\ page = "product" /\ initialProduct = "p1"
          /\ selectedOffer = NoOffer
          /\ formOpen = FALSE /\ showEditOfferModal = FALSE /\ showChatModal = FALSE
          /\ isReopeningOffer = FALSE
          /\ offerReqs = <<>> /\ offerProducts = <<>> /\ availableProducts = {}
          /\ isEditMode = FALSE /\ editableProducts = <<>>
       \/ /\ page = "offers" /\ initialProduct = Null
          /\ isReopeningOffer = TRUE
          /\ selectedOffer = ExistingOffer("REJECTED")
          /\ formOpen = TRUE /\ showEditOfferModal = TRUE /\ showChatModal = FALSE
          /\ offerReqs = <<OReq("formSeller", selectedOffer.id, selectedOffer.products, FALSE)>>
          /\ offerProducts = <<>> /\ availableProducts = {}
          /\ isEditMode = FALSE /\ editableProducts = <<>>
       \/ /\ page = "offers" /\ initialProduct = Null
          /\ isReopeningOffer = FALSE
          /\ selectedOffer = ExistingOffer("PENDING")
          /\ formOpen = FALSE /\ showEditOfferModal = FALSE /\ showChatModal = TRUE
          /\ offerReqs = <<>>
          /\ availableProducts \in {ProductIds, {}}
          /\ offerProducts = mapOfferProducts(selectedOffer.products, availableProducts)
          /\ isEditMode = TRUE
          /\ editableProducts = mapOfferProducts(selectedOffer.products, availableProducts)
    /\ ChatIdle
    /\ chatInterval = (IF showChatModal THEN selectedOffer.id ELSE Null)
    /\ prev = Deps

Fields == {"quantity", "offerPrice"}

OfferFormNext ==
    \/ handleMakeOffer
    \/ \E i \in DOMAIN offerReqs, ok \in BOOLEAN : FormSellerResponse(i, ok)
    \/ \E id \in ProductIds : handleAddProduct(id)
    \/ \E k \in 1..2, f \in Fields, v \in Typed : updateOfferProduct(k, f, v)
    \/ \E k \in 1..2 : removeOfferProduct(k)
    \/ handleSubmitOffer
    \/ \E i \in DOMAIN offerReqs, ok \in BOOLEAN : SubmitResponse(i, ok)
    \/ \E id \in ProductIds : handleAddProductToEdit(id)
    \/ \E k \in 1..2, f \in Fields, v \in Typed : updateEditableProduct(k, f, v)
    \/ \E k \in 1..2 : removeEditableProduct(k)
    \/ handleSaveOffer
    \/ \E i \in DOMAIN offerReqs, ok \in BOOLEAN : SaveResponse(i, ok)
    \/ \E i \in DOMAIN offerReqs : SaveTimer(i)

OfferFormSpec == OfferFormInit /\ [][OfferFormNext]_vars

\* ------------------------------------------------------------------------
\* CsvImportModal (app/hospital/[name]/page.tsx): the CSV file the user
\* picks is parsed in the browser.  A string is a sequence of characters.

WhiteSpace == {" ", "\t", "\r", "\n"}
DigitChars == <<"0", "1", "2", "3", "4", "5", "6", "7", "8", "9">>
IsDigit(c) == \E i \in DOMAIN DigitChars : DigitChars[i] = c
DigitVal(c) == (CHOOSE i \in DOMAIN DigitChars : DigitChars[i] = c) - 1

\* A number: NaN, or the value val.
NaN == [nan |-> TRUE, val |-> 0]
Num(v) == [nan |-> FALSE, val |-> v]
isNaN(x) == x.nan

\* String.prototype.trim
RECURSIVE trimStart(_)
trimStart(s) == IF s # <<>> /\ Head(s) \in WhiteSpace THEN trimStart(Tail(s)) ELSE s

RECURSIVE trimEnd(_)
trimEnd(s) ==
    IF s # <<>> /\ s[Len(s)] \in WhiteSpace THEN trimEnd(SubSeq(s, 1, Len(s) - 1)) ELSE s

trim(s) == trimEnd(trimStart(s))

\* String.prototype.split(sep) for a separator of one character
RECURSIVE split(_, _)
split(s, sep) ==
    IF \E i \in DOMAIN s : s[i] = sep
    THEN LET i == CHOOSE k \in DOMAIN s : s[k] = sep /\ \A j \in 1..(k - 1) : s[j] # sep
         IN  <<SubSeq(s, 1, i - 1)>> \o split(SubSeq(s, i + 1, Len(s)), sep)
    ELSE <<s>>

\* The digits a string starts with, and their decimal value.
RECURSIVE leadingDigits(_)
leadingDigits(s) ==
    IF s # <<>> /\ IsDigit(Head(s)) THEN <<Head(s)>> \o leadingDigits(Tail(s)) ELSE <<>>

RECURSIVE decimal(_)
decimal(ds) == IF ds = <<>> THEN 0 ELSE 10 * decimal(SubSeq(ds, 1, Len(ds) - 1)) + DigitVal(ds[Len(ds)])

\* parseInt(s, 10): leading white space, a sign, then the digits up to the
\* first character that is not one; NaN when there is no digit.
parseInt(s) ==
    LET t    == trimStart(s)
        sign == IF t # <<>> /\ Head(t) = "-" THEN -1 ELSE 1
        u    == IF t # <<>> /\ Head(t) \in {"+", "-"} THEN Tail(t) ELSE t
        ds   == leadingDigits(u)
    IN  IF ds = <<>> THEN NaN ELSE Num(sign * decimal(ds))

\* String(n) for n >= 0, and String(n).padStart(2, '0')
RECURSIVE String(_)
String(n) == IF n < 10 THEN <<DigitChars[n + 1]>> ELSE String(n \div 10) \o <<DigitChars[(n % 10) + 1]>>

padStart2(s) == IF Len(s) < 2 THEN <<"0">> \o s ELSE s

\* dateStr.trim().replace(/[-\.]/g, '/') maps one character:
normalizeDashOnly(c) == IF c = "-" THEN "/" ELSE c

normalizeSeparator(c) == IF c \in {"-", "."} THEN "/" ELSE c

\* The range checks of parseDate.
inRange(day, month, year) ==
    /\ ~(day < 1 \/ day > 31)
    /\ ~(month < 1 \/ month > 12)
    /\ ~(year < 1900 \/ year > 2100)

isLeap(year) == (year % 4 = 0 /\ year % 100 # 0) \/ year % 400 = 0

daysInMonth(month, year) ==
    IF month = 2 THEN (IF isLeap(year) THEN 29 ELSE 28)
    ELSE IF month \in {4, 6, 9, 11} THEN 30 ELSE 31

\* isNaN(new Date(isoDate).getTime()) for a string YYYY-MM-DD.  A day the
\* month does not have (but no more than 31) is an invalid date in some
\* engines and rolls over into the next month in others: lenient tells which.
invalidDate(iso, lenient) ==
    LET wellFormed == /\ Len(iso) = 10 /\ iso[5] = "-" /\ iso[8] = "-"
                      /\ \A i \in {1, 2, 3, 4, 6, 7, 9, 10} : IsDigit(iso[i])
        year  == decimal(SubSeq(iso, 1, 4))
        month == decimal(SubSeq(iso, 6, 7))
        day   == decimal(SubSeq(iso, 9, 10))
    IN  \/ ~wellFormed
        \/ month < 1 \/ month > 12
        \/ day < 1 \/ day > 31
        \/ (day > daysInMonth(month, year) /\ ~lenient)

\* parseDate returns null: no string (every ISO string has characters).
NoDate == <<>>

\* parseDate(dateStr): the ISO string, or null.
parseDate(dateStr, lenient) ==
    IF dateStr = <<>> \/ trim(dateStr) = <<>> THEN NoDate
    ELSE LET t          == trim(dateStr)
             normalized == [i \in DOMAIN t |-> normalizeSeparator(t[i])]
             parts      == split(normalized, "/")
         IN  IF Len(parts) # 3 THEN NoDate
             ELSE LET day   == parseInt(parts[1])
                      month == parseInt(parts[2])
                      year  == parseInt(parts[3])
                  IN  IF isNaN(day) \/ isNaN(month) \/ isNaN(year) THEN NoDate
                      ELSE IF ~inRange(day.val, month.val, year.val) THEN NoDate
                      ELSE LET isoDate == String(year.val) \o <<"-">>
                                          \o padStart2(String(month.val)) \o <<"-">>
                                          \o padStart2(String(day.val))
                           IN  IF invalidDate(isoDate, lenient) THEN NoDate ELSE isoDate

\* parseCsvLine(line): the cells of a line.  The loop toggles inQuotes at
\* every quote and drops it, ends a cell at every comma met outside quotes,
\* and pushes each cell trimmed: a comma ends a cell when the quotes before
\* it are even in number.
CellEnd == "<comma outside quotes>"

parseCsvLine(line) ==
    LET inQuotes(i) == Cardinality({j \in 1..(i - 1) : line[j] = "\""}) % 2 = 1
        marked == [i \in DOMAIN line |->
                     IF line[i] = "," /\ ~inQuotes(i) THEN CellEnd ELSE line[i]]
        cells  == split(marked, CellEnd)
    IN  [k \in DOMAIN cells |-> trim(SelectSeq(cells[k], LAMBDA char : char # "\""))]

\* toLowerCase and toUpperCase, on the letters the files of the model use.
UpperChars == <<"N", "A", "M", "E", "C", "O", "D", "L", "T", "U", "B", "R", "X", "P", "I", "Y", "Q", "F">>
LowerChars == <<"n", "a", "m", "e", "c", "o", "d", "l", "t", "u", "b", "r", "x", "p", "i", "y", "q", "f">>

toLowerCase(s) == [i \in DOMAIN s |->
    IF \E k \in DOMAIN UpperChars : UpperChars[k] = s[i]
    THEN LowerChars[CHOOSE k \in DOMAIN UpperChars : UpperChars[k] = s[i]] ELSE s[i]]

toUpperCase(s) == [i \in DOMAIN s |->
    IF \E k \in DOMAIN LowerChars : LowerChars[k] = s[i]
    THEN UpperChars[CHOOSE k \in DOMAIN LowerChars : LowerChars[k] = s[i]] ELSE s[i]]

\* Array.prototype.join(', ')
RECURSIVE join(_)
join(list) ==
    IF list = <<>> THEN <<>>
    ELSE IF Len(list) = 1 THEN list[1]
    ELSE list[1] \o <<",", " ">> \o join(Tail(list))

requiredColumns ==
    << <<"n", "a", "m", "e">>,
       <<"m", "a", "n", "u", "f", "a", "c", "t", "u", "r", "e", "r">>,
       <<"c", "o", "d", "e">>,
       <<"l", "o", "t", "n", "u", "m", "b", "e", "r">>,
       <<"e", "x", "p", "i", "r", "y", "d", "a", "t", "e">>,
       <<"p", "r", "i", "c", "e">>,
       <<"q", "u", "a", "n", "t", "i", "t", "y">>,
       <<"u", "n", "i", "t">> >>

descriptionColumn == <<"d", "e", "s", "c", "r", "i", "p", "t", "i", "o", "n">>

\* csvText.split('\n').filter(line => line.trim() !== '')
csvLines(csvText) == SelectSeq(split(csvText, "\n"), LAMBDA line : trim(line) # <<>>)

csvHeader(lines) ==
    LET cells == parseCsvLine(lines[1])
    IN  [i \in DOMAIN cells |-> toLowerCase(trim(cells[i]))]

missingColumnsFirstOnly(header) ==
    LET all == SelectSeq(requiredColumns, LAMBDA col : ~\E i \in DOMAIN header : header[i] = col)
    IN  IF all = <<>> THEN <<>> ELSE <<all[1]>>

missingColumns(header) ==
    SelectSeq(requiredColumns, LAMBDA col : ~\E i \in DOMAIN header : header[i] = col)

\* row[col] after header.forEach((col, idx) => row[col] = values[idx] || ''):
\* the cell under the last column of that name; no such column gives
\* undefined, which every later test treats as ''.
rowCell(header, values, col) ==
    LET idxs == {i \in DOMAIN header : header[i] = col}
    IN  IF idxs = {} THEN <<>>
        ELSE LET idx == CHOOSE i \in idxs : \A j \in idxs : j <= i
             IN  IF idx <= Len(values) THEN values[idx] ELSE <<>>

\* parseFloat on a cell written as digits with an optional fraction: the
\* number is val / 10^scale.
parseFloat(s) ==
    LET t     == trimStart(s)
        sign  == IF t # <<>> /\ Head(t) = "-" THEN -1 ELSE 1
        u     == IF t # <<>> /\ Head(t) \in {"+", "-"} THEN Tail(t) ELSE t
        whole == leadingDigits(u)
        rest  == SubSeq(u, Len(whole) + 1, Len(u))
        frac  == IF rest # <<>> /\ Head(rest) = "." THEN leadingDigits(Tail(rest)) ELSE <<>>
    IN  IF whole = <<>> /\ frac = <<>> THEN [nan |-> TRUE, val |-> 0, scale |-> 0]
        ELSE [nan |-> FALSE, val |-> sign * decimal(whole \o frac), scale |-> Len(frac)]

Error(rowNumber, field, message) == [row |-> rowNumber, field |-> field, message |-> message]

BOX == <<"B", "O", "X">>
PIECE == <<"P", "I", "E", "C", "E">>

\* One data row: the product it yields and the errors it adds.
parseCsvRow(header, line, rowNumber, lenient) ==
    LET values   == parseCsvLine(line)
        row(col) == rowCell(header, values, col)
        text(field, col, message) ==
            IF row(col) = <<>>
            THEN [product |-> <<>>, errors |-> <<Error(rowNumber, field, message)>>]
            ELSE [product |-> field :> row(col), errors |-> <<>>]
        nameF == text("name", requiredColumns[1], "Name is required")
        manuF == text("manufacturer", requiredColumns[2], "Manufacturer is required")
        codeF == text("code", requiredColumns[3], "Code is required")
        lotF  == text("lotNumber", requiredColumns[4], "Lot number is required")
        dateF ==
            IF row(requiredColumns[5]) = <<>>
            THEN [product |-> <<>>,
                  errors |-> <<Error(rowNumber, "expiryDate", "Expiry date is required")>>]
            ELSE LET parsedDate == parseDate(row(requiredColumns[5]), lenient)
                 IN  IF parsedDate = NoDate
                     THEN [product |-> <<>>,
                           errors |-> <<Error(rowNumber, "expiryDate", "Invalid date format")>>]
                     ELSE [product |-> "expiryDate" :> parsedDate, errors |-> <<>>]
        descF == [product |-> "description" :> row(descriptionColumn), errors |-> <<>>]
        priceF ==
            IF row(requiredColumns[6]) = <<>>
            THEN [product |-> <<>>, errors |-> <<Error(rowNumber, "price", "Price is required")>>]
            ELSE LET price == parseFloat(row(requiredColumns[6]))
                 IN  IF price.nan \/ price.val <= 0
                     THEN [product |-> <<>>,
                           errors |-> <<Error(rowNumber, "price", "Price must be a positive number")>>]
                     ELSE [product |-> "price" :> price, errors |-> <<>>]
        quantityF ==
            IF row(requiredColumns[7]) = <<>>
            THEN [product |-> <<>>,
                  errors |-> <<Error(rowNumber, "quantity", "Quantity is required")>>]
            ELSE LET quantity == parseInt(row(requiredColumns[7]))
                 IN  IF isNaN(quantity) \/ quantity.val <= 0
                     THEN [product |-> <<>>,
                           errors |-> <<Error(rowNumber, "quantity",
                                              "Quantity must be a positive integer")>>]
                     ELSE [product |-> "quantity" :> quantity.val, errors |-> <<>>]
        unitF ==
            IF row(requiredColumns[8]) = <<>>
            THEN [product |-> <<>>, errors |-> <<Error(rowNumber, "unit", "Unit is required")>>]
            ELSE LET unitUpper == toUpperCase(row(requiredColumns[8]))
                 IN  IF unitUpper # BOX /\ unitUpper # PIECE
                     THEN [product |-> <<>>,
                           errors |-> <<Error(rowNumber, "unit", "Unit must be either BOX or PIECE")>>]
                     ELSE [product |-> "unit" :> unitUpper, errors |-> <<>>]
    IN  [product |-> nameF.product @@ manuF.product @@ codeF.product @@ lotF.product
                     @@ dateF.product @@ descF.product @@ priceF.product
                     @@ quantityF.product @@ unitF.product,
         errors  |-> nameF.errors \o manuF.errors \o codeF.errors \o lotF.errors
                     \o dateF.errors \o descF.errors \o priceF.errors
                     \o quantityF.errors \o unitF.errors]

\* parseCsvData(csvText): the alert it raises and the state it sets.

RECURSIVE parseCsvRows(_, _, _, _)
parseCsvRows(header, lines, i, lenient) ==
    IF i > Len(lines) THEN [products |-> <<>>, errors |-> <<>>]
    ELSE LET this == parseCsvRow(header, lines[i], i, lenient)  \* rowNumber: lines[i] is line i
             rest == parseCsvRows(header, lines, i + 1, lenient)
         IN  [products |-> <<this.product>> \o rest.products,
              errors   |-> this.errors \o rest.errors]

parseCsvData(csvText) ==
    LET lines == csvLines(csvText)
    IN  IF Len(lines) < 2
        THEN /\ csvAlert' = [message |-> "CSV file is empty or invalid", list |-> <<>>]
             /\ UNCHANGED <<step, csvData, validationErrors>>
        ELSE LET header == csvHeader(lines)
             IN  IF Len(missingColumns(header)) > 0
                 THEN /\ csvAlert' = [message |-> "Missing required columns: ",
                                      list |-> join(missingColumns(header))]
                      /\ UNCHANGED <<step, csvData, validationErrors>>
                 ELSE LET parsed == parseCsvRows(header, lines, 2, lenientDate)
                      IN  /\ csvData' = parsed.products
                          /\ validationErrors' = parsed.errors
                          /\ step' = "preview"
                          /\ csvAlert' = NoAlert

\* ---- the files of the model
Chars(text, value) == [text |-> text, value |-> value]

DayFields == {Chars(<<"0", "1">>, 1), Chars(<<"1">>, 1), Chars(<<"2", "9">>, 29),
              Chars(<<"3", "0">>, 30), Chars(<<"3", "1">>, 31), Chars(<<"3", "2">>, 32),
              Chars(<<"0", "0">>, 0)}
MonthFields == {Chars(<<"0", "1">>, 1), Chars(<<"0", "2">>, 2), Chars(<<"2">>, 2),
                Chars(<<"0", "4">>, 4), Chars(<<"1", "2">>, 12), Chars(<<"1", "3">>, 13),
                Chars(<<"0", "0">>, 0)}
YearFields == {Chars(<<"2", "0", "2", "4">>, 2024), Chars(<<"2", "0", "2", "3">>, 2023),
               Chars(<<"1", "8", "9", "9">>, 1899), Chars(<<"1", "9", "0", "0">>, 1900),
               Chars(<<"2", "1", "0", "0">>, 2100), Chars(<<"2", "1", "0", "1">>, 2101),
               Chars(<<"2", "4">>, 24)}
Separators == {"/", "-", "."}

DatesWritten == [day : DayFields, month : MonthFields, year : YearFields,
                 sep1 : Separators, sep2 : Separators]

GoodDate == [day |-> Chars(<<"3", "1">>, 31), month |-> Chars(<<"1", "2">>, 12),
             year |-> Chars(<<"2", "0", "2", "4">>, 2024), sep1 |-> "/", sep2 |-> "/"]

dateText(d) == d.day.text \o <<d.sep1>> \o d.month.text \o <<d.sep2>> \o d.year.text

PriceCells == {<<"5">>, <<"0">>, <<"x">>, <<"2", ".", "5">>, <<>>}
QuantityCells == {<<"3">>, <<"0">>, <<"x">>, <<>>}
UnitCells == {<<"b", "o", "x">>, BOX, <<"p", "i", "e", "c", "e">>, <<"k", "g">>, <<>>}

DataRow(date, price, quantity, unit) ==
    [date |-> date, price |-> price, quantity |-> quantity, unit |-> unit]

GoodRow == DataRow(GoodDate, <<"5">>, <<"3">>, BOX)

HeaderStyles == {"plain", "upper", "quoted", "spaced"}

\* The columns of a header, as indexes into requiredColumns, in that order.
ColumnLists == {SelectSeq(<<1, 2, 3, 4, 5, 6, 7, 8>>, LAMBDA c : c \in S) : S \in SUBSET (1..8)}

AllColumns == <<1, 2, 3, 4, 5, 6, 7, 8>>

CsvFiles ==
    \* headers of every kind over no row or one good row
    [columns : ColumnLists, style : HeaderStyles, rows : {<<>>, <<GoodRow>>}]
    \cup
    \* a complete header over a row with a date of every kind
    {[columns |-> AllColumns, style |-> "plain", rows |-> <<DataRow(d, <<"5">>, <<"3">>, BOX)>>] :
        d \in DatesWritten}
    \cup
    \* a complete header over a good row and a row with cells of every kind
    {[columns |-> AllColumns, style |-> "plain", rows |-> <<GoodRow, DataRow(GoodDate, p, q, u)>>] :
        p \in PriceCells, q \in QuantityCells, u \in UnitCells}

headerCell(c, style) ==
    CASE style = "plain"  -> requiredColumns[c]
      [] style = "upper"  -> toUpperCase(requiredColumns[c])
      [] style = "quoted" -> <<"\"">> \o requiredColumns[c] \o <<"\"">>
      [] style = "spaced" -> <<" ">> \o requiredColumns[c] \o <<" ">>

rowCellText(c, r) ==
    CASE c = 1 -> <<"a">>
      [] c = 2 -> <<"m">>
      [] c = 3 -> <<"c", "1">>
      [] c = 4 -> <<"l", "7">>
      [] c = 5 -> dateText(r.date)
      [] c = 6 -> r.price
      [] c = 7 -> r.quantity
      [] c = 8 -> r.unit

RECURSIVE joinCells(_)
joinCells(cells) ==
    IF cells = <<>> THEN <<>>
    ELSE IF Len(cells) = 1 THEN cells[1]
    ELSE cells[1] \o <<",">> \o joinCells(Tail(cells))

RECURSIVE joinLines(_)
joinLines(lines) == IF lines = <<>> THEN <<>> ELSE lines[1] \o <<"\r", "\n">> \o joinLines(Tail(lines))

\* The text of a file.
fileText(f) ==
    joinLines(<<joinCells([i \in DOMAIN f.columns |-> headerCell(f.columns[i], f.style)])>>
              \o [k \in DOMAIN f.rows |->
                    joinCells([i \in DOMAIN f.columns |-> rowCellText(f.columns[i], f.rows[k])])])

\* reader.onload of handleFileUpload: the file the user picked is parsed.
handleFileUpload ==
    /\ step = "instructions"
    /\ parseCsvData(fileText(csvFile))
    /\ UNCHANGED <<csvFile, lenientDate>>
    /\ UNCHANGED <<sessionVars, hospitalVars, offersVars, cartVars>>

\* The button Back of the preview: setStep('instructions').
backToInstructions ==
    /\ step = "preview"
    /\ step' = "instructions"
    /\ UNCHANGED <<csvFile, lenientDate, csvData, validationErrors, csvAlert>>
    /\ UNCHANGED <<sessionVars, hospitalVars, offersVars, cartVars>>

\* handleClose: resetModal(), onClose().
resetModal ==
    /\ step' = "instructions" /\ csvData' = <<>> /\ validationErrors' = <<>>
    /\ UNCHANGED <<csvFile, lenientDate, csvAlert>>
    /\ UNCHANGED <<sessionVars, hospitalVars, offersVars, cartVars>>

\* The modal over the hospital page of a signed-in owner, whose session and
\* page have settled.
CsvInit ==
    /\ localStorage = "t1" /\ owned = OwnHospital /\ inflight = <<>>
    /\ jwtToken = "t1" /\ hospitalProfile = OwnHospital /\ shoppingCart = Null
    /\ isLoadingProfile = FALSE /\ isLoadingCart = FALSE
    /\ storedToken = "t1"
    /\ privy = "in" /\ loggingOut = FALSE /\ privySession = TRUE
    /\ phase = "ready" /\ page = "hospital" /\ nav = Null /\ pageFresh = FALSE
    /\ isAuthenticating = FALSE /\ authError = FALSE
    /\ lastEvent = Event("mount", "load")
    /\ viewName = OwnHospital
    /\ hospital = OwnHospital /\ hpError = FALSE /\ isLoading = FALSE
    /\ products = "loaded" /\ orders = "loaded" /\ salesHistory = "loaded"
    /\ isInitializing = FALSE
    /\ backendOffers = InitialOffers
    /\ offerReqs = <<>> /\ OffersPageInit
    /\ csvFile \in CsvFiles /\ lenientDate \in BOOLEAN /\ CsvModalInit
    /\ CartPageClosed
    /\ prev = Deps

CsvNext ==
    \/ handleFileUpload
    \/ backToInstructions
    \/ resetModal

CsvSpec == CsvInit /\ [][CsvNext]_vars

\* ------------------------------------------------------------------------
\* CartPage: the render of the context's cart.  Amounts are in thousandths
\* of a euro, so that 10% of an amount in cents is a whole number.

MaxItems == 3
MaxAmount == 25

\* A cart item: its id and its offerId (a string, or null).
Item(id, offerId) == [id |-> id, offerId |-> offerId]

\* The carts the backend returns: up to MaxItems items, each of an offer or
\* of none, and a totalAmount of up to MaxAmount cents.
CartBodies ==
    {[present |-> TRUE, items |-> [i \in DOMAIN f |-> Item(i, f[i])], totalAmount |-> 10 * c] :
        f \in UNION {[1..n -> OfferIds \cup {Null}] : n \in 0..MaxItems}, c \in 0..MaxAmount}

\* A push that puts the item first.
unshiftItem(list, item) == <<item>> \o list

\* groups[item.offerId].push(item), individual.push(item)
pushItem(list, item) == Append(list, item)

\* The forEach of groupItemsByOffer.
RECURSIVE groupItems(_, _, _)
groupItems(items, groups, individual) ==
    IF items = <<>> THEN [offerGroups |-> groups, individualItems |-> individual]
    ELSE LET item == Head(items)
         IN  IF item.offerId # Null
             THEN LET g == IF item.offerId \in DOMAIN groups THEN groups
                           ELSE groups @@ (item.offerId :> <<>>)
                  IN  groupItems(Tail(items),
                                 [g EXCEPT ![item.offerId] = pushItem(@, item)], individual)
             ELSE groupItems(Tail(items), groups, pushItem(individual, item))

groupItemsByOffer(cart) ==
    IF ~cart.present THEN [offerGroups |-> <<>>, individualItems |-> <<>>]
    ELSE groupItems(cart.items, <<>>, <<>>)

\* shoppingCart?.totalAmount || 0
totalProductsCost(cart) == IF cart.present THEN cart.totalAmount ELSE 0

\* A fee of 1%.
platformFeeOnePercent(total) == (total * 1) \div 100

\* totalProductsCost * 0.10
platformFee(total) == (total * 10) \div 100

hasItems(cart) == cart.present /\ Len(cart.items) > 0

\* x.toFixed(2), in cents.  An amount that ends in half a cent has no exact
\* double, and the double it is stored as lies above it for some amounts and
\* below it for others: tieUp tells which.
toFixed2(x, tieUp) ==
    (x \div 10) + (IF x % 10 > 5 \/ (x % 10 = 5 /\ tieUp) THEN 1 ELSE 0)

\* The render of CartPage past its loading guard.
CartPageRender(tieFee, tieTotal) ==
    /\ phase = "ready" /\ privy = "in" /\ jwtToken # Null
    /\ LET grouped == groupItemsByOffer(cartBody)
           cost    == totalProductsCost(cartBody)
       IN  cartView' = [rendered |-> TRUE,
                        offerGroups |-> grouped.offerGroups,
                        individualItems |-> grouped.individualItems,
                        summary |-> hasItems(cartBody),
                        productsCost |-> toFixed2(cost, FALSE),
                        platformFee |-> toFixed2(platformFee(cost), tieFee),
                        total |-> toFixed2(cost + platformFee(cost), tieTotal)]
    /\ UNCHANGED <<cartBody, cartFetchVars>>
    /\ UNCHANGED <<sessionVars, hospitalVars, offersVars, csvVars>>

\* The cart page of a signed-in user whose session has settled, for every
\* cart the context can hold.
CartViewInit ==
    /\ localStorage = "t1" /\ owned = OwnHospital /\ inflight = <<>>
    /\ jwtToken = "t1" /\ hospitalProfile = OwnHospital /\ shoppingCart = Null
    /\ isLoadingProfile = FALSE /\ isLoadingCart = FALSE
    /\ storedToken = "t1"
    /\ privy = "in" /\ loggingOut = FALSE /\ privySession = TRUE
    /\ phase = "ready" /\ page = "cart" /\ nav = Null /\ pageFresh = FALSE
    /\ isAuthenticating = FALSE /\ authError = FALSE
    /\ lastEvent = Event("mount", "load")
    /\ viewName = OwnHospital /\ HospitalPageInit
    /\ backendOffers = InitialOffers
    /\ offerReqs = <<>> /\ OffersPageInit
    /\ CsvModalClosed
    /\ cartBody \in CartBodies \cup {NoCartBody} /\ cartView = NoCartView
    /\ NoCartFetches
    /\ prev = Deps

CartViewNext == \E tieFee \in BOOLEAN, tieTotal \in BOOLEAN : CartPageRender(tieFee, tieTotal)

CartViewSpec == CartViewInit /\ [][CartViewNext]_vars

\* ------------------------------------------------------------------------
\* CartPage: the requests for the cart.  fetchShoppingCartInternal is called
\* by fetchHospitalProfile, by the page's fetch effect and after a removal;
\* each call sets shoppingCart from its own response.

MaxCartFetches == 4

\* GET /api/shop/hospitals/{id}/cart, the seq-th that was issued.
CartGet(seq, token, inner) ==
    [kind |-> "cart", seq |-> seq, token |-> token, inner |-> inner, item |-> 0,
     served |-> FALSE, status |-> 0, body |-> NoCartBody]

\* A request of the page through authenticatedFetch.
PageReq(kind, item) ==
    [kind |-> kind, seq |-> 0, token |-> localStorage, inner |-> FALSE, item |-> item,
     served |-> FALSE, status |-> 0, body |-> NoCartBody]

\* An entry of cartLog: no response yet, or what the response set.
Pending == [answered |-> FALSE, value |-> NoCartBody]
Answered(value) == [answered |-> TRUE, value |-> value]

\* The cart the backend returns for these items.
CartOf(items) == [present |-> TRUE, items |-> items, totalAmount |-> 100 * Len(items)]

\* fetchShoppingCart(): the public guard, then fetchShoppingCartInternal.
fetchShoppingCart ==
    IF hospitalProfile = Null \/ jwtToken = Null THEN <<>>
    ELSE <<CartGet(Len(cartLog) + 1, jwtToken, FALSE)>>

fetchPendingOrders == <<PageReq("pending", 0)>>

\* A commit of CartPage: the fetch effect, deps [hospitalProfile, jwtToken].
CartPageCommit ==
    /\ phase = "ready" /\ page = "cart"
    /\ prev # Deps
    /\ LET fetches == (Changed("hospitalProfile") \/ Changed("jwtToken"))
                      /\ hospitalProfile # Null /\ jwtToken # Null
           gets == IF fetches THEN fetchShoppingCart ELSE <<>>
           ords == IF fetches THEN fetchPendingOrders ELSE <<>>
       IN  /\ cartReqs' = cartReqs \o gets \o ords
           /\ cartLog' = cartLog \o [k \in 1..Len(gets) |-> Pending]
           /\ isLoadingCart' = (isLoadingCart \/ Len(gets) > 0)
           /\ isLoadingOrders' = (isLoadingOrders \/ fetches)
    /\ prev' = Deps
    /\ lastEvent' = Event("commit", "render")
    /\ UNCHANGED <<cartBody, cartView, backendCart>>
    /\ UNCHANGED <<localStorage, owned, inflight, jwtToken, hospitalProfile, shoppingCart,
                   isLoadingProfile, storedToken, privy, loggingOut, privySession, phase,
                   page, nav, pageFresh, isAuthenticating, authError>>
    /\ UNCHANGED <<hospitalVars, offersVars, csvVars>>

\* The backend handles a GET of the cart: the cart as it is then, a 404 for
\* an empty one, or a failure.
BackendServesCart(i, status) ==
    /\ cartReqs[i].kind = "cart" /\ ~cartReqs[i].served
    /\ status \in {200, 500, NetErr} \cup (IF backendCart = <<>> THEN {404} ELSE {})
    /\ cartReqs' = [cartReqs EXCEPT ![i].served = TRUE, ![i].status = status,
                                    ![i].body = IF status = 200 THEN CartOf(backendCart)
                                                ELSE NoCartBody]
    /\ UNCHANGED <<cartBody, cartView, backendCart, cartLog, isLoadingOrders>>
    /\ UNCHANGED <<sessionVars, hospitalVars, offersVars, csvVars>>

\* fetchShoppingCartInternal after `await fetch`, on the cart page.
CartFetchResponse(i) ==
    /\ cartReqs[i].kind = "cart" /\ cartReqs[i].served
    /\ LET r == cartReqs[i]
           value == IF r.status = 200 THEN r.body ELSE NoCartBody
       IN  /\ cartBody' = value
           /\ shoppingCart' = IF r.status = 200 THEN "c1" ELSE Null
           /\ isLoadingCart' = FALSE
           /\ isLoadingProfile' = IF r.inner THEN FALSE ELSE isLoadingProfile
           /\ cartLog' = [cartLog EXCEPT ![r.seq] = Answered(value)]
           /\ cartReqs' = Remove(cartReqs, i)
           /\ lastEvent' = Response(r, r.status, IF Failure(r.status) THEN "error" ELSE "log")
    /\ UNCHANGED <<cartView, backendCart, isLoadingOrders>>
    /\ UNCHANGED <<localStorage, owned, inflight, jwtToken, hospitalProfile, storedToken,
                   privy, loggingOut, privySession, phase, page, nav, pageFresh, prev,
                   isAuthenticating, authError>>
    /\ UNCHANGED <<hospitalVars, offersVars, csvVars>>

\* fetchPendingOrders after `await authenticatedFetch`.
PendingOrdersResponse(i, status) ==
    /\ cartReqs[i].kind = "pending"
    /\ isLoadingOrders' = FALSE
    /\ cartReqs' = Remove(cartReqs, i)
    /\ lastEvent' = Response(cartReqs[i], status, IF Failure(status) THEN "error" ELSE "log")
    /\ UNCHANGED <<cartBody, cartView, backendCart, cartLog>>
    /\ UNCHANGED <<localStorage, owned, inflight, jwtToken, hospitalProfile, shoppingCart,
                   isLoadingProfile, isLoadingCart, storedToken, privy, loggingOut,
                   privySession, phase, page, nav, pageFresh, prev, isAuthenticating,
                   authError>>
    /\ UNCHANGED <<hospitalVars, offersVars, csvVars>>

\* The items the page lists: past the loading guard, with isLoadingCart false.
ItemsListed ==
    IF phase = "ready" /\ page = "cart" /\ prev = Deps /\ privy = "in" /\ jwtToken # Null
       /\ ~isLoadingCart /\ hasItems(cartBody)
    THEN {cartBody.items[k].id : k \in DOMAIN cartBody.items} ELSE {}

\* handleRemoveItem up to the DELETE, on an item the page lists.  The model
\* follows a user who removes nothing more once MaxCartFetches cart requests
\* were issued or are due.
handleRemoveItem(itemId, confirmed) ==
    /\ itemId \in ItemsListed
    /\ hospitalProfile # Null
    /\ Len(cartLog) + Cardinality({i \in DOMAIN cartReqs : cartReqs[i].kind = "delete"})
          < MaxCartFetches
    /\ cartReqs' = IF confirmed THEN cartReqs \o <<PageReq("delete", itemId)>> ELSE cartReqs
    /\ lastEvent' = Event("removeItem", IF confirmed THEN "confirm" ELSE "cancel")
    /\ UNCHANGED <<cartBody, cartView, backendCart, cartLog, isLoadingOrders>>
    /\ UNCHANGED <<localStorage, owned, inflight, jwtToken, hospitalProfile, shoppingCart,
                   isLoadingProfile, isLoadingCart, storedToken, privy, loggingOut,
                   privySession, phase, page, nav, pageFresh, prev, isAuthenticating,
                   authError>>
    /\ UNCHANGED <<hospitalVars, offersVars, csvVars>>

\* handleRemoveItem after `await authenticatedFetch`: the backend has removed
\* the item and the cart is fetched again, or the request failed.
RemoveResponse(i, ok) ==
    /\ cartReqs[i].kind = "delete"
    /\ LET r == cartReqs[i]
           gets == IF ok THEN fetchShoppingCart ELSE <<>>
       IN  /\ backendCart' = IF ok THEN SelectSeq(backendCart, LAMBDA it : it.id # r.item)
                             ELSE backendCart
           /\ cartReqs' = Remove(cartReqs, i) \o gets
           /\ cartLog' = cartLog \o [k \in 1..Len(gets) |-> Pending]
           /\ isLoadingCart' = (isLoadingCart \/ Len(gets) > 0)
           /\ lastEvent' = Response(r, IF ok THEN 204 ELSE 500, IF ok THEN "log" ELSE "error")
    /\ UNCHANGED <<cartBody, cartView, isLoadingOrders>>
    /\ UNCHANGED <<localStorage, owned, inflight, jwtToken, hospitalProfile, shoppingCart,
                   isLoadingProfile, storedToken, privy, loggingOut, privySession, phase,
                   page, nav, pageFresh, prev, isAuthenticating, authError>>
    /\ UNCHANGED <<hospitalVars, offersVars, csvVars>>

\* /cart loaded with a stored token: fetchHospitalProfile has set the profile
\* and awaits the cart, and the commit that renders the profile is due.
CartFetchInit ==
    /\ localStorage = "t1" /\ owned = OwnHospital /\ inflight = <<>>
    /\ jwtToken = "t1" /\ hospitalProfile = OwnHospital /\ shoppingCart = Null
    /\ isLoadingProfile = TRUE /\ isLoadingCart = TRUE
    /\ storedToken = "t1"
    /\ privy = "in" /\ loggingOut = FALSE /\ privySession = TRUE
    /\ phase = "ready" /\ page = "cart" /\ nav = Null /\ pageFresh = FALSE
    /\ isAuthenticating = FALSE /\ authError = FALSE
    /\ lastEvent = Response(Req("profile", "t1", FALSE), 200, "log")
    /\ viewName = OwnHospital /\ HospitalPageInit
    /\ backendOffers = InitialOffers
    /\ offerReqs = <<>> /\ OffersPageInit
    /\ CsvModalClosed
    /\ cartBody = NoCartBody /\ cartView = NoCartView
    /\ backendCart \in {[k \in 1..n |-> Item(k, Null)] : n \in 1..MaxItems}
    /\ cartReqs = <<CartGet(1, "t1", TRUE)>>
    /\ cartLog = <<Pending>>
    /\ isLoadingOrders = FALSE
    /\ prev = [Deps EXCEPT !.hospitalProfile = Null, !.isLoadingCart = FALSE,
                           !.isOwner = (Null = hospital)]

CartFetchNext ==
    \/ CartPageCommit
    \/ \E i \in DOMAIN cartReqs, st \in Statuses : BackendServesCart(i, st)
    \/ \E i \in DOMAIN cartReqs : CartFetchResponse(i)
    \/ \E i \in DOMAIN cartReqs, st \in Statuses : PendingOrdersResponse(i, st)
    \/ \E id \in 1..MaxItems, confirmed \in BOOLEAN : handleRemoveItem(id, confirmed)
    \/ \E i \in DOMAIN cartReqs, ok \in BOOLEAN : RemoveResponse(i, ok)

CartFetchSpec == CartFetchInit /\ [][CartFetchNext]_vars

\* ------------------------------------------------------------------------
\* Properties of the session (Spec)

\* C1: after sign-out (clearUserData) the key kelox_jwt_token holds no token
\* and the context's jwtToken, hospitalProfile and shoppingCart are all null;
\* this is so until the next handler runs, the commit that follows included.
C1_SignOutClears ==
    lastEvent.op = "clearUserData" =>
        /\ localStorage = Null /\ jwtToken = Null
        /\ hospitalProfile = Null /\ shoppingCart = Null

\* A sign-out has just cleared a session that had a token, a profile and a cart.
C1_Witness ==
    /\ lastEvent.op = "clearUserData"
    /\ prev.jwtToken # Null /\ prev.hospitalProfile # Null /\ prev.shoppingCart # Null
    /\ localStorage = Null /\ jwtToken = Null

\* C2: a token under the key survives a page load: if the key holds a token
\* when the app mounts then, once the mount has settled (its commits are done
\* and no other handler has run), jwtToken is that token and the key holds it.
C2_TokenSurvivesReload ==
    (lastEvent.op = "mount" /\ Quiescent /\ storedToken # Null) =>
        jwtToken = storedToken /\ localStorage = storedToken

\* The mount of a page load that found a token has settled.
C2_Witness ==
    /\ lastEvent.op = "mount" /\ Quiescent
    /\ storedToken # Null /\ localStorage = storedToken

\* C3 (as claimed): no failed request is re-issued automatically: a commit that
\* follows the failure of a request, with no handler in between, issues no
\* request of that kind with that token.
C3_NoAutomaticReissue ==
    [][(/\ lastEvent.op = "response" /\ lastEvent.level = "error"
        /\ lastEvent' = lastEvent
        /\ Len(inflight') > Len(inflight))
       => \A k \in (Len(inflight) + 1)..Len(inflight') :
              ~(inflight'[k].kind = lastEvent.kind /\ inflight'[k].token = lastEvent.token)]_vars

\* C4 (as claimed): once a request sent with the stored token was answered 401
\* and the commit has settled, the context no longer holds that token or a
\* login is in progress.
C4_ReauthenticatesOn401 ==
    (/\ lastEvent.op = "response" /\ lastEvent.status = 401
     /\ lastEvent.token # Null /\ Quiescent)
    => \/ jwtToken # lastEvent.token
       \/ \E k \in DOMAIN inflight : inflight[k].kind \in {"sign", "login"}

\* Backend authentication or profile loading has completed with the backend's
\* answer: the login answered 200, or the profile fetch answered 404, or the
\* cart fetch that ends a successful profile load was answered.
LoadingCompleted ==
    /\ lastEvent.op = "response"
    /\ \/ lastEvent.kind = "login" /\ lastEvent.status = 200
       \/ lastEvent.kind = "profile" /\ lastEvent.status = 404
       \/ lastEvent.kind = "cart"
    /\ ~isLoadingProfile /\ ~isAuthenticating

C6_NotFoundIsAbsent ==
    (lastEvent.op = "response" /\ lastEvent.status = 404) =>
        /\ lastEvent.kind = "profile" => hospitalProfile = Null /\ lastEvent.level = "log"
        /\ lastEvent.kind = "cart" => shoppingCart = Null /\ lastEvent.level = "log"

\* The cart fetch of a loaded profile was answered 404.
C6_Witness ==
    /\ lastEvent.op = "response" /\ lastEvent.status = 404 /\ lastEvent.kind = "cart"
    /\ hospitalProfile # Null /\ shoppingCart = Null

\* C8: a token in localStorage when the app mounts is used at once, with no
\* user action, for a fetch of the hospital profile.
C8_ProfileFetchedOnMount ==
    (lastEvent.op = "mount" /\ storedToken # Null) =>
        \E k \in DOMAIN inflight : inflight[k] = Req("profile", storedToken, FALSE)

\* The mount found a token and its profile fetch is in flight.
C8_Witness ==
    /\ lastEvent.op = "mount" /\ storedToken # Null /\ jwtToken = storedToken
    /\ Len(inflight) = 1 /\ inflight[1].kind = "profile"

\* ------------------------------------------------------------------------
\* Properties of the hospital page (HospitalSpec)

\* The state held for each resource, by the kind of the fetch that loads it.
Resources ==
    [profile |-> hospitalProfile, cart |-> shoppingCart, hospital |-> hospital,
     products |-> products, orders |-> orders, sales |-> salesHistory]

\* A step that handles the failure of a fetch.
FailureHandled ==
    /\ lastEvent'.op = "response" /\ lastEvent'.level = "error"
    /\ Len(inflight') = Len(inflight) - 1

\* C7: the handling of a failed fetch leaves the state of every resource but
\* the one it was fetching as it was.
C7_FailureLeavesSiblings ==
    [][FailureHandled =>
          \A f \in DOMAIN Resources \ {lastEvent'.kind} : Resources'[f] = Resources[f]]_vars

\* The orders fetch of a loaded hospital page has failed; the hospital, its
\* products and the owner's profile are still there.
C7_Witness ==
    /\ lastEvent.op = "response" /\ lastEvent.level = "error" /\ lastEvent.kind = "orders"
    /\ hospital # Null /\ products = "loaded" /\ hospitalProfile # Null

\* ------------------------------------------------------------------------
\* Properties of the offers page (OffersSpec)

\* The offer the chat modal shows was made by the user's hospital.
shownOutgoing == selectedOffer.id \in Created

\* C9 (as claimed): an action is offered only for the matching displayed
\* status: edit and cancel only for an outgoing offer shown PENDING, re-open
\* only for an outgoing offer shown REJECTED, accept and reject only for an
\* incoming offer shown PENDING, and none for an offer shown ACCEPTED.
C9_ActionsMatchStatus ==
    /\ (showsEditCancel \/ showsSaveChanges)
          => shownOutgoing /\ selectedOffer.status = "PENDING"
    /\ showsReopen => shownOutgoing /\ selectedOffer.status = "REJECTED"
    /\ (showsAcceptReject \/ showsRejectDialog)
          => ~shownOutgoing /\ selectedOffer.status = "PENDING"

\* The sum over an offer's line items of price x quantity.
RECURSIVE LineItemsTotal(_)
LineItemsTotal(lines) ==
    IF lines = <<>> THEN 0
    ELSE Head(lines).price * Head(lines).quantity + LineItemsTotal(Tail(lines))

\* C10 (as claimed): wherever an offer's total is shown, on the cards of the
\* list and in the chat view, it is the sum over that offer's line items of
\* price x quantity.
C10_TotalIsSumOfLines ==
    /\ \A id \in displayOffers :
           calculateOfferTotal(offers[id]) = LineItemsTotal(offers[id].products)
    /\ viewMode => calculateTotal = LineItemsTotal(selectedOffer.products)


\* ------------------------------------------------------------------------
\* Properties of the CSV import (CsvSpec)

\* The file has a complete header and one data row, which the upload parsed.
DateRowParsed ==
    /\ csvFile.columns = AllColumns /\ Len(csvFile.rows) = 1
    /\ step = "preview"

\* A date of the calendar, among the dates the files of the model write.
RealDate(day, month, year) ==
    /\ day >= 1
    /\ \/ day <= 28
       \/ month \in {1, 12} /\ day <= 31
       \/ month = 4 /\ day <= 30
       \/ month = 2 /\ day = 29 /\ year = 2024

\* Written as dd<sep>mm<sep>yyyy with one of the three separators.
WrittenInFormat(d) ==
    /\ Len(d.day.text) = 2 /\ Len(d.month.text) = 2 /\ Len(d.year.text) = 4
    /\ d.sep1 = d.sep2

DateOutOfRange(d) ==
    \/ d.day.value < 1 \/ d.day.value > 31
    \/ d.month.value < 1 \/ d.month.value > 12
    \/ d.year.value < 1900 \/ d.year.value > 2100

DateRejected ==
    /\ "expiryDate" \notin DOMAIN csvData[1]
    /\ \E i \in DOMAIN validationErrors :
          validationErrors[i].field = "expiryDate" /\ validationErrors[i].row = 2

\* C11: a date of the calendar with a year from 1900 to 2100, written as
\* dd/mm/yyyy, dd-mm-yyyy or dd.mm.yyyy, is accepted and becomes yyyy-mm-dd;
\* a date whose day is outside 1..31, whose month is outside 1..12 or whose
\* year is outside 1900..2100 is rejected (parseDate returns null and the row
\* gets an expiry date error), whatever the browser's Date does.
C11_DateParser ==
    DateRowParsed =>
        LET d == csvFile.rows[1].date
        IN  /\ (WrittenInFormat(d) /\ ~DateOutOfRange(d)
                   /\ RealDate(d.day.value, d.month.value, d.year.value))
                => /\ "expiryDate" \in DOMAIN csvData[1]
                   /\ csvData[1]["expiryDate"]
                        = d.year.text \o <<"-">> \o d.month.text \o <<"-">> \o d.day.text
                   /\ validationErrors = <<>>
            /\ DateOutOfRange(d) => DateRejected

\* A date written with dots was accepted.
C11_Witness ==
    /\ DateRowParsed
    /\ csvFile.rows[1].date.sep1 = "." /\ csvFile.rows[1].date.sep2 = "."
    /\ "expiryDate" \in DOMAIN csvData[1]

\* The required columns the header of the file does not have.
ColumnsLacking == SelectSeq(AllColumns, LAMBDA c : \A i \in DOMAIN csvFile.columns : csvFile.columns[i] # c)

\* The upload has run the required-column validation: the file has a header
\* line and at least one data line.
ColumnsValidated ==
    /\ csvFile.columns # <<>> /\ csvFile.rows # <<>>
    /\ csvAlert # NoAlert \/ step = "preview"

\* C12: when the required-column validation finds the header of the file
\* lacking required columns, the alert names every one of them (and nothing
\* else), and nothing is imported.
C12_MissingColumnsNamed ==
    (ColumnsValidated /\ ColumnsLacking # <<>>) =>
        /\ csvAlert.message = "Missing required columns: "
        /\ split(SelectSeq(csvAlert.list, LAMBDA c : c # " "), ",")
              = [i \in DOMAIN ColumnsLacking |-> requiredColumns[ColumnsLacking[i]]]
        /\ step = "instructions" /\ csvData = <<>>

C12_Witness ==
    /\ ColumnsValidated /\ Len(ColumnsLacking) >= 2
    /\ csvFile.style = "quoted"
    /\ csvAlert.message = "Missing required columns: "

\* ------------------------------------------------------------------------
\* Properties of the cart page's render (CartViewSpec)

Range(list) == {list[k] : k \in DOMAIN list}

\* How often the item of the cart with this id occurs in a list.
Occurrences(list, id) == Cardinality({k \in DOMAIN list : list[k].id = id})

\* The items of a list are in the order the cart has them (an item's id is
\* its position in the cart).
InCartOrder(list) == \A a, b \in DOMAIN list : a < b => list[a].id < list[b].id

\* C13: in the rendered grouping, every item with an offerId is once in the
\* group of that offerId and nowhere else, every item without one is once in
\* the individual list and in no group, no group or list holds anything
\* else, and every group and the individual list keep the cart's order.
C13_GroupingByOffer ==
    cartView.rendered =>
        LET groups == cartView.offerGroups
            individual == cartView.individualItems
        IN  /\ \A i \in DOMAIN cartBody.items :
                  LET item == cartBody.items[i]
                  IN  IF item.offerId # Null
                      THEN /\ item.offerId \in DOMAIN groups
                           /\ \A g \in DOMAIN groups :
                                 Occurrences(groups[g], item.id)
                                    = (IF g = item.offerId THEN 1 ELSE 0)
                           /\ Occurrences(individual, item.id) = 0
                      ELSE /\ Occurrences(individual, item.id) = 1
                           /\ \A g \in DOMAIN groups : Occurrences(groups[g], item.id) = 0
            /\ \A g \in DOMAIN groups :
                  /\ groups[g] # <<>>
                  /\ \A k \in DOMAIN groups[g] : groups[g][k] \in Range(cartBody.items)
                  /\ InCartOrder(groups[g])
            /\ \A k \in DOMAIN individual : individual[k] \in Range(cartBody.items)
            /\ InCartOrder(individual)

\* A cart whose items alternate between an offer and none was grouped.
C13_Witness ==
    /\ cartView.rendered
    /\ Len(cartBody.items) = 3
    /\ cartBody.items[1].offerId = "o1" /\ cartBody.items[2].offerId = Null
    /\ cartBody.items[3].offerId = "o1"
    /\ Len(cartView.offerGroups["o1"]) = 2

\* C14: the platform fee of the order summary is 10% of the products cost
\* shown above it, to the cent: the two differ by no more than the half cent
\* that writing the fee with two decimals rounds away.
C14_PlatformFeeTenPercent ==
    (cartView.rendered /\ cartView.summary) =>
        LET tenPercent == cartBody.totalAmount  \* 10% of it, in 1/10000 euro
            shown      == 100 * cartView.platformFee
        IN  /\ cartView.productsCost * 10 = cartBody.totalAmount
            /\ shown - tenPercent <= 50 /\ tenPercent - shown <= 50

\* A cart of 0.20 euro is shown with a fee of 0.02 euro.
C14_Witness ==
    /\ cartView.rendered /\ cartView.summary
    /\ cartBody.totalAmount = 200 /\ cartView.platformFee = 2

\* ------------------------------------------------------------------------
\* Properties of the session's sign-in and sign-out (Spec)

\* C15: the context holds a hospital profile only while it holds a token.
C15_ProfileOnlyWithToken == hospitalProfile # Null => jwtToken # Null

\* The requests of backend logins in progress: a message being signed, or a
\* POST /api/auth/login awaiting its response.
LoginsInProgress == {i \in DOMAIN inflight : inflight[i].kind \in {"sign", "login"}}
LoginPosts == {i \in DOMAIN inflight : inflight[i].kind = "login"}
Signings == {i \in DOMAIN inflight : inflight[i].kind = "sign"}

\* The user has signed out (logout() called or completed) and not signed in
\* again.
SignedOut == loggingOut \/ (privy = "out" /\ ~privySession)

\* C16: from a sign-out on, no step starts a backend login, issues a POST
\* /api/auth/login or writes a token under kelox_jwt_token.
C16_SignOutStartsNoLogin ==
    [][SignedOut =>
          /\ Cardinality(Signings') <= Cardinality(Signings)
          /\ Cardinality(LoginPosts') <= Cardinality(LoginPosts)
          /\ (localStorage' # localStorage => localStorage' = Null)]_vars

\* C17: a commit whose auth effect starts the backend login renders no
\* token, and none is stored.
C17_AutoLoginOnlyWithoutToken ==
    [][(~Quiescent /\ Cardinality(Signings') > Cardinality(Signings))
          => (jwtToken = Null /\ localStorage = Null)]_vars

\* The auth effect has started a login on a Home that holds no token.
C17_Witness ==
    /\ page = "home" /\ privy = "in" /\ isAuthenticating
    /\ Signings # {} /\ jwtToken = Null
    /\ lastEvent.op = "privyReady"

\* C18: at most one backend login is in progress.
C18_OneLoginAtATime == Cardinality(LoginsInProgress) <= 1

\* ------------------------------------------------------------------------
\* Properties of the cart's requests (CartFetchSpec)

CartFetchesCompleted == \A i \in DOMAIN cartReqs : cartReqs[i].kind # "cart"

\* C19: once every cart request has been answered, the context's cart is
\* what the response to the most recently issued request set: an older
\* request's response has not overwritten it.
C19_NewestCartResponseWins ==
    (cartLog # <<>> /\ CartFetchesCompleted) => cartBody = cartLog[Len(cartLog)].value

\* ------------------------------------------------------------------------
\* Properties of the hospital page's owner requests (HospitalSpec)

OwnerRequests == {i \in DOMAIN inflight : inflight[i].kind \in {"orders", "sales"}}

\* C20: a request for the orders or the sales history is issued only by a
\* render in which the user's hospital is loaded and is the hospital viewed.
C20_OwnerOnlyRequests ==
    [][Cardinality(OwnerRequests') > Cardinality(OwnerRequests)
          => (hospitalProfile # Null /\ hospitalProfile = hospital)]_vars

\* ------------------------------------------------------------------------
\* Properties of Home's account-setup card (Spec)

\* C21: the 'Account Setup Required' card is shown only after the backend
\* has reported that the user owns no hospital.  The backend reports so (a
\* login response without a profile, a 404 on the profile fetch) only for a
\* user who owns none, so the card is shown only to such a user.
C21_SetupOnlyWithoutHospital == showsAccountSetup => owned = Null

\* ------------------------------------------------------------------------
\* Properties of the offer form's requests (OfferFormSpec)

\* The offer requests awaiting a response.
OffersSent == {i \in DOMAIN offerReqs : offerReqs[i].kind \in SendKinds}

\* C22: every line item of a create, update or re-open request has a
\* quantity above zero and not above what the seller has, and a price above
\* zero.
C22_LineItemsValid ==
    \A i \in OffersSent : \A k \in DOMAIN offerReqs[i].products :
        LET line == offerReqs[i].products[k]
        IN  /\ line.quantity > 0 /\ line.quantity <= SellerProducts[line.productId].quantity
            /\ line.price > 0

\* C23: every create, update or re-open request carries at least one product.
C23_AtLeastOneProduct == \A i \in OffersSent : Len(offerReqs[i].products) >= 1

\* ------------------------------------------------------------------------
\* Rejecting an offer from the chat modal.

\* The reject requests for an offer that await a response.
RejectsInFlight(reqs, id) ==
    Cardinality({k \in DOMAIN reqs : reqs[k].kind = "reject" /\ reqs[k].id = id})

\* A step sends POST /api/offers/{id}/reject.
RejectSent(id) == RejectsInFlight(offerReqs', id) > RejectsInFlight(offerReqs, id)

\* A step in which the backend stores a rejection reason in the offer's chat.
ReasonPosted(id) == chatPosted'[id] = chatPosted[id] + 1

\* C24: from the chat modal, the reject request for an offer is sent only by
\* the step that handles the ok answer to the POST of the rejection reason
\* to that offer's chat, that is only after the reason is posted.
C24_RejectOnlyAfterPost ==
    [][\A id \in OfferIds : RejectSent(id) => ReasonPosted(id)]_vars

\* A reject request awaits its response, and the reason is in the chat.
C24_Witness ==
    \E k \in DOMAIN offerReqs :
        /\ offerReqs[k].kind = "reject"
        /\ chatPosted[offerReqs[k].id] = 1

\* C25: whenever a rejection reason is posted to an offer's chat, the reject
\* request for that offer is sent by the handler that posted it.
C25_PostThenReject ==
    [][\A id \in OfferIds : ReasonPosted(id) => RejectSent(id)]_vars

\* ------------------------------------------------------------------------
\* The chat polling of the modal.

\* The chat GETs a step starts.
ChatFetchesStarted == chatReqs' \ chatReqs

\* C26: the 5-second interval that re-fetches an offer's chat is live exactly
\* while the chat modal is open on that offer, and a chat fetch is started
\* only for the offer the chat modal is open on: none after the modal has
\* closed or unmounted.
C26_PollingWhileOpen ==
    /\ [](chatInterval = IF chatModalShown THEN selectedOffer.id ELSE Null)
    /\ [][\A r \in ChatFetchesStarted : chatModalShown' /\ r.id = selectedOffer'.id]_vars

\* The chat modal is open and a fetch of the interval awaits its response.
C26_Witness ==
    /\ chatModalShown
    /\ ChatReq(selectedOffer.id, FALSE) \in chatReqs

====
